---- MODULE Spec2Model ----
(***************************************************************************)
(* A model of the rosc OSC codec (src/src/encoder.rs, src/src/decoder.rs). *)
(*                                                                         *)
(* Bytes are naturals 0..255 and a buffer is a sequence of bytes.  A slice *)
(* &[u8] handed to a parser is a pair of 0-based offsets lo, hi into the    *)
(* buffer the call was started with ("original_input"), so the pointer     *)
(* difference original_input.offset(input) of the decoder is just lo.      *)
(*                                                                         *)
(* A 32-bit word is kept as the integer its bits spell in two's            *)
(* complement (an i32 as itself, a u32 from 2^31 on as a negative number), *)
(* a 64-bit quantity (Long, Double, Time) as two words <<high, low>>, and  *)
(* a float as the word of its IEEE bits: the codec only moves the bits.    *)
(***************************************************************************)
EXTENDS Integers, Sequences, FiniteSets, TLC

VARIABLES
    packet,   \* the packet last handed to the encoder, <<>> when none
    enc,      \* status and byte count the encoder returned for it
    mode,     \* "idle", "udp" (buf is one datagram of this encoder), "raw" (buf
              \* is a datagram of another sender), "tcp" (buf is a stream),
              \* "sink" (a caller drives output), "string" (buf is a string)
              \* "time" (res is a converted time) or "match" (res is the
              \* outcome of an address match)
    sent,     \* the packets whose encodings were put into buf, in order
    buf,      \* the bytes the receiver holds
    cut,      \* how many bytes of the sender's output have not arrived yet
    op,       \* the operation that produced this state
    res,      \* what the decoder returned, <<>> when it has not run
    output,   \* the sink (impl Output) a caller drives, <<>> when none
    marks,    \* the marks taken on output and not placed yet, oldest first
    operand   \* the argument of the last operation that took no packet

vars == <<packet, enc, mode, sent, buf, cut, op, res, output, marks, operand>>

----------------------------------------------------------------------------
(* Bounds of the model.                                                    *)

\* longest address, string and blob, in bytes
MaxLen == 4
\* most arguments of a generated message
MaxArgs == 2
\* most packets (messages and bundles, nested ones included) in a datagram
\* or in a stream
MaxNodes == 3
\* most trailing bytes the receiver can be missing
MaxCut == 5
\* longest type-tag string (after the ',') of a datagram built by hand
MaxTags == 5
\* most bytes a caller writes, marks and string-encodes into a sink itself
MaxSink == 6
\* most marks outstanding on a sink at once
MaxMarks == 2
\* most bytes a sink holds when a packet is encoded into it
MaxOld == 2
\* how many seconds before and after the UNIX epoch, and before and after
\* the last second an OscTime can hold, the clock is read at
Around == 2
\* most '/'-separated parts of an address
MaxParts == 2

----------------------------------------------------------------------------
(* Values: src/src/types.rs                                                *)

Arg(tag, val) == [tag |-> tag, val |-> val]

Message(addr, args) == [kind |-> "Message", addr |-> addr, args |-> args]

Bundle(timetag, content) ==
    [kind |-> "Bundle", timetag |-> timetag, content |-> content]

IsMessage(p) == p.kind = "Message"
IsBundle(p) == p.kind = "Bundle"

----------------------------------------------------------------------------
(* Bytes                                                                   *)

Zeros(n) == [i \in 1..n |-> 0]

\* to_be_bytes of a 32-bit word; the four quotients keep the low 32 bits of
\* n, which is also what the cast `length as u32` keeps
to_be_bytes(n) ==
    << (n \div 16777216) % 256, (n \div 65536) % 256, (n \div 256) % 256, n % 256 >>

\* the big-endian word at 0-based offset lo of b
from_be_bytes(b, lo) ==
    (IF b[lo + 1] >= 128 THEN b[lo + 1] - 256 ELSE b[lo + 1]) * 16777216
      + b[lo + 2] * 65536 + b[lo + 3] * 256 + b[lo + 4]

\* a u32 used as a length (`as usize`, nom's ToUsize): a value from 2^31 on
\* is longer than every buffer of the model, and the largest integer stands
\* for it
as_usize(v) == IF v < 0 THEN 2147483647 ELSE v

\* the bytes of b at 0-based offsets lo .. hi-1
Slice(b, lo, hi) == SubSeq(b, lo + 1, hi)

----------------------------------------------------------------------------
(* `let v = e; body`: the value is bound once and the body reads it.       *)

Let(v, Body(_)) == Body(v)

----------------------------------------------------------------------------
(* Encoder: src/src/encoder.rs                                             *)

\* What an encoder step returns: the sink after it, the byte count it
\* reports, and whether it returned Ok, returned Err or panicked.  Neither
\* sink of the model returns Err: a Vec is Infallible and a Cursor on a Vec
\* has no failing write or seek.
Wrote(out, n) == [st |-> "Ok", out |-> out, n |-> n]
Panicked(out) == [st |-> "Panic", out |-> out, n |-> 0]

pad_noop(pos) == pos

pad_always(pos) == pos + (4 - (pos % 4))

pad(pos) == IF pos % 4 = 0 THEN pos ELSE pos + (4 - (pos % 4))

\* The two sinks.  A Vec<u8> is its bytes; a WriteOutput is taken over a
\* std::io::Cursor on a Vec<u8>, as the tests take it: the bytes and the
\* position of the cursor.
VecNew == [sink |-> "Vec", bytes |-> <<>>]
WriteOutputNew == [sink |-> "WriteOutput", bytes |-> <<>>, pos |-> 0]

\* Cursor::write_all: the vector is zero-filled up to the position when it
\* is shorter, the data overwrite what stands from the position on and
\* lengthen the vector past its end, and the position moves behind them
write_all(c, data) ==
    LET padded == IF c.pos > Len(c.bytes)
                  THEN c.bytes \o Zeros(c.pos - Len(c.bytes)) ELSE c.bytes
        end == c.pos + Len(data)
        len == IF end > Len(padded) THEN end ELSE Len(padded)
    IN  [c EXCEPT !.bytes = [i \in 1..len |->
                               IF i > c.pos /\ i <= end THEN data[i - c.pos]
                               ELSE padded[i]],
                  !.pos = end]

\* Cursor::seek(SeekFrom::Start(pos))
seek(c, pos) == [c EXCEPT !.pos = pos]

\* Output::write: Vec::extend, and write_all on the cursor
write(out, data) ==
    IF out.sink = "Vec" THEN Wrote([out EXCEPT !.bytes = @ \o data], Len(data))
    ELSE Wrote(write_all(out, data), Len(data))

RECURSIVE mark_loop(_, _)
\* the loop `while left > 0` of WriteOutput::mark: zeros in runs of at most 8
mark_loop(c, left) ==
    IF left <= 0 THEN c
    ELSE LET num == IF left < 8 THEN left ELSE 8
         IN  mark_loop(write_all(c, Zeros(num)), left - num)

\* a Vec mark that counts from the start of the vector
mark_from_zero(out, size) ==
    IF out.sink = "Vec"
    THEN [st |-> "Ok", out |-> [out EXCEPT !.bytes = @ \o Zeros(size)],
          mark |-> <<0, size>>]
    ELSE [st |-> "Ok", out |-> mark_loop(out, size), mark |-> out.pos]

\* Output::mark: the Vec mark is (start, end), the WriteOutput mark the
\* position before the zeros
mark(out, size) ==
    IF out.sink = "Vec"
    THEN [st |-> "Ok", out |-> [out EXCEPT !.bytes = @ \o Zeros(size)],
          mark |-> <<Len(out.bytes), Len(out.bytes) + size>>]
    ELSE [st |-> "Ok", out |-> mark_loop(out, size), mark |-> out.pos]

\* a place that leaves the reserved bytes as they are
place_nothing(out, m, data) == Wrote(out, 0)

\* a place whose WriteOutput does not seek back to the old position
place_no_seek_back(out, m, data) ==
    IF out.sink = "Vec"
    THEN IF m[1] > m[2] \/ m[2] > Len(out.bytes) \/ Len(data) # m[2] - m[1]
         THEN Panicked(out)
         ELSE Wrote([out EXCEPT !.bytes = [i \in 1..Len(out.bytes) |->
                        IF i > m[1] /\ i <= m[2] THEN data[i - m[1]] ELSE @[i]]], 0)
    ELSE Wrote(write_all(seek(out, m), data), 0)

\* a place that writes one byte behind the reserved bytes
place_one_off(out, m, data) ==
    IF out.sink = "Vec"
    THEN IF m[1] > m[2] \/ m[2] + 1 > Len(out.bytes) \/ Len(data) # m[2] - m[1]
         THEN Panicked(out)
         ELSE Wrote([out EXCEPT !.bytes = [i \in 1..Len(out.bytes) |->
                        IF i > m[1] + 1 /\ i <= m[2] + 1 THEN data[i - m[1] - 1] ELSE @[i]]], 0)
    ELSE Wrote(seek(write_all(seek(out, m + 1), data), out.pos), 0)

\* Output::place.  Vec: self[start..end].copy_from_slice(data), where
\* indexing outside the vector and a length mismatch both panic.
\* WriteOutput: seek to the mark, write_all, seek back to the old position.
place(out, m, data) ==
    IF out.sink = "Vec"
    THEN IF m[1] > m[2] \/ m[2] > Len(out.bytes) \/ Len(data) # m[2] - m[1]
         THEN Panicked(out)
         ELSE Wrote([out EXCEPT !.bytes = [i \in 1..Len(out.bytes) |->
                        IF i > m[1] /\ i <= m[2] THEN data[i - m[1]] ELSE @[i]]], 0)
    ELSE Wrote(seek(write_all(seek(out, m), data), out.pos), 0)

\* out.write(&[0u8; cap][..n]): slicing past the array panics, and so does
\* the usize subtraction that would have made n negative
write_zeros(out, cap, n) ==
    IF n < 0 \/ n > cap THEN Panicked(out) ELSE write(out, Zeros(n))

\* encode_string_into with the terminator and no padding
encode_string_into_one_nul(s, out) ==
    Let(write(out, s), LAMBDA w1 :
    Let(write_zeros(w1.out, 4, 1), LAMBDA w2 :
    IF w2.st # "Ok" THEN w2 ELSE Wrote(w2.out, Len(s) + 1)))

encode_string_into(s, out) ==
    LET padded_len == pad(Len(s) + 1)
        padding == padded_len - Len(s)
    IN  Let(write(out, s), LAMBDA w1 :
        Let(write_zeros(w1.out, 4, padding), LAMBDA w2 :
        IF w2.st # "Ok" THEN w2 ELSE Wrote(w2.out, Len(s) + padding)))

\* encode_string: bytes.resize(new_len, 0), which would also shorten
encode_string(s) ==
    LET new_len == pad(Len(s) + 1)
    IN  IF new_len >= Len(s) THEN s \o Zeros(new_len - Len(s))
        ELSE SubSeq(s, 1, new_len)

encode_time_tag_into(time, out) ==
    Let(write(out, to_be_bytes(time[1])), LAMBDA w1 :
    Let(write(w1.out, to_be_bytes(time[2])), LAMBDA w2 :
    Wrote(w2.out, 8)))

\* the ASCII code of a character of the wire format
TagChar(c) == CASE c = "i" -> 105 [] c = "h" -> 104 [] c = "f" -> 102
                [] c = "d" -> 100 [] c = "c" -> 99 [] c = "s" -> 115
                [] c = "b" -> 98 [] c = "t" -> 116 [] c = "m" -> 109
                [] c = "r" -> 114 [] c = "T" -> 84 [] c = "F" -> 70
                [] c = "N" -> 78 [] c = "I" -> 73 [] c = "[" -> 91
                [] c = "]" -> 93 [] c = "," -> 44 [] c = "/" -> 47

RECURSIVE encode_arg_type(_, _)
RECURSIVE encode_arg_types(_, _, _, _)

\* the loop `for v in ... { written += encode_arg_type(v, out)? }`, from
\* element i on
encode_arg_types(args, i, out, written) ==
    IF i > Len(args) THEN Wrote(out, written)
    ELSE Let(encode_arg_type(args[i], out), LAMBDA w :
         IF w.st # "Ok" THEN w
         ELSE encode_arg_types(args, i + 1, w.out, written + w.n))

encode_arg_type(arg, out) ==
    CASE arg.tag = "Int" -> write(out, <<TagChar("i")>>)
      [] arg.tag = "Long" -> write(out, <<TagChar("h")>>)
      [] arg.tag = "Float" -> write(out, <<TagChar("f")>>)
      [] arg.tag = "Double" -> write(out, <<TagChar("d")>>)
      [] arg.tag = "Char" -> write(out, <<TagChar("c")>>)
      [] arg.tag = "String" -> write(out, <<TagChar("s")>>)
      [] arg.tag = "Blob" -> write(out, <<TagChar("b")>>)
      [] arg.tag = "Time" -> write(out, <<TagChar("t")>>)
      [] arg.tag = "Midi" -> write(out, <<TagChar("m")>>)
      [] arg.tag = "Color" -> write(out, <<TagChar("r")>>)
      [] arg.tag = "Bool" ->
            write(out, IF arg.val = <<1>> THEN <<TagChar("T")>> ELSE <<TagChar("F")>>)
      [] arg.tag = "Nil" -> write(out, <<TagChar("N")>>)
      [] arg.tag = "Inf" -> write(out, <<TagChar("I")>>)
      [] arg.tag = "Array" ->
            Let(write(out, <<TagChar("[")>>), LAMBDA w1 :
            Let(encode_arg_types(arg.val, 1, w1.out, w1.n), LAMBDA w2 :
            IF w2.st # "Ok" THEN w2
            ELSE Let(write(w2.out, <<TagChar("]")>>), LAMBDA w3 :
                 Wrote(w3.out, w2.n + w3.n))))

RECURSIVE encode_arg_data(_, _)
RECURSIVE encode_args_data(_, _, _, _)

\* the loop `for v in ... { written += encode_arg_data(v, out)? }`, from
\* element i on
encode_args_data(args, i, out, written) ==
    IF i > Len(args) THEN Wrote(out, written)
    ELSE Let(encode_arg_data(args[i], out), LAMBDA w :
         IF w.st # "Ok" THEN w
         ELSE encode_args_data(args, i + 1, w.out, written + w.n))

\* the OscType::Blob arm of encode_arg_data
encode_blob(x, out) ==
    LET padded_blob_length == pad(Len(x))
        padding == padded_blob_length - Len(x)
    IN  IF padding < 0 THEN Panicked(out)
        ELSE Let(write(out, to_be_bytes(Len(x))), LAMBDA w1 :
             Let(write(w1.out, x), LAMBDA w2 :
             Let(IF padding > 0 THEN write_zeros(w2.out, 3, padding) ELSE w2, LAMBDA w3 :
             IF w3.st # "Ok" THEN w3 ELSE Wrote(w3.out, 4 + padded_blob_length))))

encode_arg_data(arg, out) ==
    CASE arg.tag \in {"Int", "Float", "Char"} -> write(out, to_be_bytes(arg.val[1]))
      [] arg.tag \in {"Long", "Double"} ->
            write(out, to_be_bytes(arg.val[1]) \o to_be_bytes(arg.val[2]))
      [] arg.tag = "String" -> encode_string_into(arg.val, out)
      [] arg.tag = "Blob" -> encode_blob(arg.val, out)
      [] arg.tag = "Time" -> encode_time_tag_into(arg.val, out)
      [] arg.tag \in {"Midi", "Color"} -> write(out, arg.val)
      [] arg.tag \in {"Bool", "Nil", "Inf"} -> Wrote(out, 0)
      [] arg.tag = "Array" -> encode_args_data(arg.val, 1, out, 0)

\* encode_message without the ',' that opens the type-tag string
encode_message_no_comma(msg, out) ==
    Let(encode_string_into(msg.addr, out), LAMBDA w1 :
    IF w1.st # "Ok" THEN w1 ELSE
    Let(encode_arg_types(msg.args, 1, w1.out, w1.n), LAMBDA w3 :
    IF w3.st # "Ok" THEN w3 ELSE
    Let(write_zeros(w3.out, 4, pad(w3.n + 1) - w3.n), LAMBDA w4 :
    IF w4.st # "Ok" THEN w4 ELSE
    encode_args_data(msg.args, 1, w4.out, w3.n + w4.n))))

encode_message(msg, out) ==
    Let(encode_string_into(msg.addr, out), LAMBDA w1 :
    IF w1.st # "Ok" THEN w1 ELSE
    Let(write(w1.out, <<TagChar(",")>>), LAMBDA w2 :
    Let(encode_arg_types(msg.args, 1, w2.out, w1.n + w2.n), LAMBDA w3 :
    IF w3.st # "Ok" THEN w3 ELSE
    Let(write_zeros(w3.out, 4, pad(w3.n + 1) - w3.n), LAMBDA w4 :
    IF w4.st # "Ok" THEN w4 ELSE
    encode_args_data(msg.args, 1, w4.out, w3.n + w4.n)))))

\* "#bundle"
BundleTag == <<35, 98, 117, 110, 100, 108, 101>>

RECURSIVE encode_bundle(_, _)
RECURSIVE encode_bundle_content(_, _, _, _)

\* the loop over bundle.content, from element i on: mark, encode, place
encode_bundle_content(content, i, out, written) ==
    IF i > Len(content) THEN Wrote(out, written)
    ELSE Let(mark(out, 4), LAMBDA length_mark :
         Let(IF IsMessage(content[i])
             THEN encode_message(content[i], length_mark.out)
             ELSE encode_bundle(content[i], length_mark.out), LAMBDA w :
         IF w.st # "Ok" THEN w ELSE
         Let(place(w.out, length_mark.mark, to_be_bytes(w.n)), LAMBDA p :
         IF p.st # "Ok" THEN p
         ELSE encode_bundle_content(content, i + 1, p.out, written + 4 + w.n))))

encode_bundle(bundle, out) ==
    Let(encode_string_into(BundleTag, out), LAMBDA w1 :
    IF w1.st # "Ok" THEN w1 ELSE
    Let(encode_time_tag_into(bundle.timetag, w1.out), LAMBDA w2 :
    encode_bundle_content(bundle.content, 1, w2.out, w1.n + w2.n)))

encode_into(p, out) ==
    IF IsMessage(p) THEN encode_message(p, out) ELSE encode_bundle(p, out)

\* encode: a fresh Vec, encode_into, .expect(...) and Ok(bytes); the
\* .expect turns an Err of encode_into into a panic
encode(p) ==
    Let(encode_into(p, VecNew), LAMBDA w :
    [st |-> IF w.st = "Err" THEN "Panic" ELSE w.st, out |-> w.out.bytes, n |-> w.n])

----------------------------------------------------------------------------
(* Decoder: src/src/decoder.rs                                             *)
(*                                                                         *)
(* A parser takes the original buffer b and the slice lo..hi of it and     *)
(* returns Ok(rem, val), rem the offset where the rest of the slice        *)
(* starts, or an error.  Every error these parsers produce is a            *)
(* nom::Err::Error: the "complete" combinators never answer Incomplete     *)
(* and nothing here builds a Failure.                                      *)

Ok(rem, val) == [ok |-> TRUE, rem |-> rem, val |-> val]
Error(e) == [ok |-> FALSE, err |-> e]

\* nom::bytes::complete::take: the value is the slice taken
take(n, lo, hi) ==
    IF hi - lo >= n THEN Ok(lo + n, <<lo, lo + n>>) ELSE Error("ReadError(Eof)")

\* nom::number::complete::be_u32 (and be_i32, be_f32: the same four bytes)
be_u32(b, lo, hi) ==
    IF hi - lo >= 4 THEN Ok(lo + 4, from_be_bytes(b, lo)) ELSE Error("ReadError(Eof)")

\* padding that always takes four bytes
pad_to_32_bit_boundary_four(lo, hi) == take(4, lo, hi)

pad_to_32_bit_boundary(lo, hi) ==
    LET offset == 4 - (lo % 4)
    IN  take(offset, lo, hi)

\* String::from_utf8 on the model's alphabet: a byte below 128 is a
\* character of its own, and a byte from 128 on never stands alone
from_utf8_ok(s) == \A i \in 1..Len(s) : s[i] < 128

RECURSIVE take_till_nul(_, _, _)
\* take_till(|c| c == 0u8): the offset of the first NUL of the slice, hi
\* when it has none
take_till_nul(b, lo, hi) ==
    IF lo >= hi \/ b[lo + 1] = 0 THEN lo ELSE take_till_nul(b, lo + 1, hi)

read_osc_string(b, lo, hi) ==
    Let(take_till_nul(b, lo, hi), LAMBDA z :
    Let(pad_to_32_bit_boundary(z, hi), LAMBDA p :
    IF ~p.ok THEN p
    ELSE IF ~from_utf8_ok(Slice(b, lo, z)) THEN Error("StringError")
    ELSE Ok(p.rem, Slice(b, lo, z))))

read_time_tag(b, lo, hi) ==
    Let(be_u32(b, lo, hi), LAMBDA s :
    IF ~s.ok THEN s ELSE
    Let(be_u32(b, s.rem, hi), LAMBDA f :
    IF ~f.ok THEN f ELSE Ok(f.rem, <<s.val, f.val>>)))

read_blob(b, lo, hi) ==
    Let(be_u32(b, lo, hi), LAMBDA size :
    IF ~size.ok THEN size ELSE
    Let(take(as_usize(size.val), size.rem, hi), LAMBDA t :
    IF ~t.ok THEN t ELSE
    Let(pad_to_32_bit_boundary(t.rem, hi), LAMBDA p :
    IF ~p.ok THEN p ELSE Ok(p.rem, Arg("Blob", Slice(b, t.val[1], t.val[2]))))))

\* char::from_u32: every scalar value, that is no surrogate and at most
\* 0x10FFFF
read_char(b, lo, hi) ==
    Let(be_u32(b, lo, hi), LAMBDA r :
    IF ~r.ok THEN r
    ELSE IF r.val < 0 \/ r.val > 1114111 \/ (r.val >= 55296 /\ r.val <= 57343)
    THEN Error("BadArg")
    ELSE Ok(r.rem, Arg("Char", <<r.val>>)))

\* map(be_i32, OscType::Int) and map(be_f32, OscType::Float)
read_word(b, lo, hi, tag) ==
    Let(be_u32(b, lo, hi), LAMBDA r :
    IF ~r.ok THEN r ELSE Ok(r.rem, Arg(tag, <<r.val>>)))

\* map(be_i64, OscType::Long) and map(be_f64, OscType::Double): eight
\* bytes, kept as two words
read_dword(b, lo, hi, tag) ==
    IF hi - lo >= 8
    THEN Ok(lo + 8, Arg(tag, <<from_be_bytes(b, lo), from_be_bytes(b, lo + 4)>>))
    ELSE Error("ReadError(Eof)")

\* read_midi_message and read_osc_color: map(take(4usize), ...)
read_quad(b, lo, hi, tag) ==
    Let(take(4, lo, hi), LAMBDA t :
    IF ~t.ok THEN t ELSE Ok(t.rem, Arg(tag, Slice(b, lo, lo + 4))))

\* the tag is the ASCII code of the type-tag character: 'f' 102, 'd' 100,
\* 'i' 105, 'h' 104, 's' 115, 't' 116, 'b' 98, 'r' 114, 'T' 84, 'F' 70,
\* 'N' 78, 'I' 73, 'c' 99, 'm' 109
read_osc_arg(b, lo, hi, tag) ==
    CASE tag = 102 -> read_word(b, lo, hi, "Float")
      [] tag = 100 -> read_dword(b, lo, hi, "Double")
      [] tag = 105 -> read_word(b, lo, hi, "Int")
      [] tag = 104 -> read_dword(b, lo, hi, "Long")
      [] tag = 115 ->
            Let(read_osc_string(b, lo, hi), LAMBDA r :
            IF ~r.ok THEN r ELSE Ok(r.rem, Arg("String", r.val)))
      [] tag = 116 ->
            Let(read_time_tag(b, lo, hi), LAMBDA r :
            IF ~r.ok THEN r ELSE Ok(r.rem, Arg("Time", r.val)))
      [] tag = 98 -> read_blob(b, lo, hi)
      [] tag = 114 -> read_quad(b, lo, hi, "Color")
      [] tag = 84 -> Ok(lo, Arg("Bool", <<1>>))
      [] tag = 70 -> Ok(lo, Arg("Bool", <<0>>))
      [] tag = 78 -> Ok(lo, Arg("Nil", <<>>))
      [] tag = 73 -> Ok(lo, Arg("Inf", <<>>))
      [] tag = 99 -> read_char(b, lo, hi)
      [] tag = 109 -> read_quad(b, lo, hi, "Midi")
      [] OTHER -> Error("BadArg")

RECURSIVE read_osc_args_loop(_, _, _, _, _, _, _)
\* the loop `for tag in type_tags` of read_osc_args, from tag i on, with
\* the argument list and the stack of stashed lists built so far; '[' is 91
\* and ']' is 93
\* the loop with the finished array put in front of the stashed list
read_osc_args_loop_prepend(b, lo, hi, type_tags, i, args, stack) ==
    IF i > Len(type_tags) THEN Ok(lo, args)
    ELSE IF type_tags[i] = 91
    THEN read_osc_args_loop(b, lo, hi, type_tags, i + 1, <<>>, Append(stack, args))
    ELSE IF type_tags[i] = 93
    THEN IF stack = <<>> THEN Error("BadMessage")
         ELSE read_osc_args_loop(b, lo, hi, type_tags, i + 1,
                                 <<Arg("Array", args)>> \o stack[Len(stack)],
                                 SubSeq(stack, 1, Len(stack) - 1))
    ELSE Let(read_osc_arg(b, lo, hi, type_tags[i]), LAMBDA r :
         IF ~r.ok THEN r
         ELSE read_osc_args_loop(b, r.rem, hi, type_tags, i + 1,
                                 Append(args, r.val), stack))

\* the loop taking a ']' with nothing open as the end of an array that
\* started before the first tag
read_osc_args_loop_lenient(b, lo, hi, type_tags, i, args, stack) ==
    IF i > Len(type_tags) THEN Ok(lo, args)
    ELSE IF type_tags[i] = 91
    THEN read_osc_args_loop(b, lo, hi, type_tags, i + 1, <<>>, Append(stack, args))
    ELSE IF type_tags[i] = 93
    THEN IF stack = <<>>
         THEN read_osc_args_loop(b, lo, hi, type_tags, i + 1,
                                 <<Arg("Array", args)>>, stack)
         ELSE read_osc_args_loop(b, lo, hi, type_tags, i + 1,
                                 Append(stack[Len(stack)], Arg("Array", args)),
                                 SubSeq(stack, 1, Len(stack) - 1))
    ELSE Let(read_osc_arg(b, lo, hi, type_tags[i]), LAMBDA r :
         IF ~r.ok THEN r
         ELSE read_osc_args_loop(b, r.rem, hi, type_tags, i + 1,
                                 Append(args, r.val), stack))

read_osc_args_loop(b, lo, hi, type_tags, i, args, stack) ==
    IF i > Len(type_tags) THEN Ok(lo, args)
    ELSE IF type_tags[i] = 91
    THEN read_osc_args_loop(b, lo, hi, type_tags, i + 1, <<>>, Append(stack, args))
    ELSE IF type_tags[i] = 93
    THEN IF stack = <<>> THEN Error("BadMessage")
         ELSE read_osc_args_loop(b, lo, hi, type_tags, i + 1,
                                 Append(stack[Len(stack)], Arg("Array", args)),
                                 SubSeq(stack, 1, Len(stack) - 1))
    ELSE Let(read_osc_arg(b, lo, hi, type_tags[i]), LAMBDA r :
         IF ~r.ok THEN r
         ELSE read_osc_args_loop(b, r.rem, hi, type_tags, i + 1,
                                 Append(args, r.val), stack))

\* raw_type_tags.chars().skip(1), then the loop
read_osc_args(b, lo, hi, raw_type_tags) ==
    read_osc_args_loop(b, lo, hi, Tail(raw_type_tags), 1, <<>>, <<>>)

decode_message(addr, b, lo, hi) ==
    Let(read_osc_string(b, lo, hi), LAMBDA type_tags :
    IF ~type_tags.ok THEN type_tags
    ELSE IF Len(type_tags.val) > 1
    THEN Let(read_osc_args(b, type_tags.rem, hi, type_tags.val), LAMBDA args :
         IF ~args.ok THEN args ELSE Ok(args.rem, Message(addr, args.val)))
    ELSE Ok(type_tags.rem, Message(addr, <<>>)))

RECURSIVE decode_packet(_, _, _)
RECURSIVE many0_bundle_elements(_, _, _, _)

\* an element parser that reads the element and leaves the input where it was
read_bundle_element_peek(b, lo, hi) ==
    Let(be_u32(b, lo, hi), LAMBDA elem_size :
    IF ~elem_size.ok THEN elem_size ELSE
    Let(take(as_usize(elem_size.val), elem_size.rem, hi), LAMBDA t :
    IF ~t.ok THEN Error("BadBundle") ELSE
    Let(decode_packet(b, t.val[1], t.val[2]), LAMBDA p :
    IF ~p.ok THEN p ELSE Ok(lo, p.val))))

\* map_parser(take(elem_size) or BadBundle, decode_packet): the packet is
\* decoded from the elem_size bytes alone, and the element ends after them
\* wherever the packet ended
read_bundle_element(b, lo, hi) ==
    Let(be_u32(b, lo, hi), LAMBDA elem_size :
    IF ~elem_size.ok THEN elem_size ELSE
    Let(take(as_usize(elem_size.val), elem_size.rem, hi), LAMBDA t :
    IF ~t.ok THEN Error("BadBundle") ELSE
    Let(decode_packet(b, t.val[1], t.val[2]), LAMBDA p :
    IF ~p.ok THEN p ELSE Ok(t.rem, p.val))))

\* nom::multi::many0 around read_bundle_element: an Error of the element
\* parser ends the repetition with what was collected; an element that
\* consumed nothing is the Many0 error
many0_bundle_elements(b, lo, hi, acc) ==
    Let(read_bundle_element(b, lo, hi), LAMBDA r :
    IF ~r.ok THEN Ok(lo, acc)
    ELSE IF r.rem = lo THEN Error("ReadError(Many0)")
    ELSE many0_bundle_elements(b, r.rem, hi, Append(acc, r.val)))

decode_bundle(b, lo, hi) ==
    Let(read_time_tag(b, lo, hi), LAMBDA timetag :
    IF ~timetag.ok THEN timetag ELSE
    Let(many0_bundle_elements(b, timetag.rem, hi, <<>>), LAMBDA content :
    IF ~content.ok THEN content
    ELSE Ok(content.rem, Bundle(timetag.val, content.val))))

\* decode_packet taking every string that starts with '#' for the bundle tag
decode_packet_any_hash(b, lo, hi) ==
    IF lo >= hi THEN Error("BadPacket")
    ELSE Let(read_osc_string(b, lo, hi), LAMBDA addr :
         IF ~addr.ok THEN addr
         ELSE IF addr.val # <<>> /\ addr.val[1] = 47
         THEN decode_message(addr.val, b, addr.rem, hi)
         ELSE IF addr.val # <<>> /\ addr.val[1] = 35
         THEN decode_bundle(b, addr.rem, hi)
         ELSE Error("BadPacket"))

decode_packet(b, lo, hi) ==
    IF lo >= hi THEN Error("BadPacket")
    ELSE Let(read_osc_string(b, lo, hi), LAMBDA addr :
         IF ~addr.ok THEN addr
         ELSE IF addr.val # <<>> /\ addr.val[1] = 47
         THEN decode_message(addr.val, b, addr.rem, hi)
         ELSE IF addr.val = BundleTag
         THEN decode_bundle(b, addr.rem, hi)
         ELSE Error("BadPacket"))

\* What the public decoders return: Ok((remainder, value)), the remainder
\* now a byte sequence of its own, or Err(e).
Decoded(rem, val) == [ok |-> TRUE, rem |-> rem, val |-> val]

decode_udp(msg) ==
    Let(decode_packet(msg, 0, Len(msg)), LAMBDA r :
    IF r.ok THEN Decoded(Slice(msg, r.rem, Len(msg)), r.val) ELSE r)

\* Option<OscPacket>: None is <<>>, Some(p) is <<p>>
None == <<>>
Some(p) == <<p>>

decode_tcp(msg) ==
    Let(be_u32(msg, 0, Len(msg)), LAMBDA osc_packet_length :
    IF ~osc_packet_length.ok THEN osc_packet_length
    ELSE IF as_usize(osc_packet_length.val) > Len(msg) THEN Decoded(msg, None)
    ELSE Let(decode_packet(msg, osc_packet_length.rem, Len(msg)), LAMBDA r :
         IF r.ok THEN Decoded(Slice(msg, r.rem, Len(msg)), Some(r.val)) ELSE r))

RECURSIVE decode_tcp_vec_loop(_, _)
\* a loop that ends at a frame that fails and returns what it has
decode_tcp_vec_loop_partial(input, osc_packets) ==
    Let(decode_tcp(input), LAMBDA r :
    IF ~r.ok THEN Decoded(input, osc_packets)
    ELSE IF r.val = None THEN Decoded(input, osc_packets)
    ELSE IF r.rem = <<>> THEN Decoded(r.rem, Append(osc_packets, r.val[1]))
    ELSE decode_tcp_vec_loop(r.rem, Append(osc_packets, r.val[1])))

\* the while-let loop of decode_tcp_vec with its two variables
decode_tcp_vec_loop(input, osc_packets) ==
    Let(decode_tcp(input), LAMBDA r :
    IF ~r.ok THEN r
    ELSE IF r.val = None THEN Decoded(input, osc_packets)
    ELSE IF r.rem = <<>> THEN Decoded(r.rem, Append(osc_packets, r.val[1]))
    ELSE decode_tcp_vec_loop(r.rem, Append(osc_packets, r.val[1])))

decode_tcp_vec(msg) == decode_tcp_vec_loop(msg, <<>>)

----------------------------------------------------------------------------
(* Time: src/src/types.rs                                                  *)
(*                                                                         *)
(* A SystemTime is [secs, nanos], the whole seconds since the UNIX epoch   *)
(* (negative before it) and the nanoseconds 0..999999999 above them, as    *)
(* the timespec of the platform holds it.  An OscTime is <<seconds,        *)
(* fractional>>, two 32-bit words.  A u64 count of seconds is kept as two  *)
(* limbs <<high, low>> of 16 bits, the high one open-ended, because the    *)
(* sums pass 2^31.                                                         *)

Limb == 65536

Wide(n) == <<n \div Limb, n % Limb>>

\* u64 addition
WideAdd(a, b) == <<a[1] + b[1] + ((a[2] + b[2]) \div Limb), (a[2] + b[2]) % Limb>>

\* the low 32 bits of a wide number as a 32-bit word
WideWord(w) ==
    (IF w[1] % Limb >= 32768 THEN (w[1] % Limb) - Limb ELSE w[1] % Limb) * Limb + w[2]

\* const UNIX_OFFSET: u64 = 2_208_988_800 = 33706 * 65536 + 32384
UNIX_OFFSET == <<33706, 32384>>

NANOS_PER_SECOND == 1000000000

RECURSIVE ScaleBits(_, _, _)
\* `bits` more binary digits of r / NANOS_PER_SECOND behind the digits q,
\* for 0 <= r < NANOS_PER_SECOND: <<digits, remainder>>
ScaleBits(r, bits, q) ==
    IF bits = 0 THEN <<q, r>>
    ELSE IF 2 * r >= NANOS_PER_SECOND
    THEN ScaleBits(2 * r - NANOS_PER_SECOND, bits - 1, 2 * q + 1)
    ELSE ScaleBits(2 * r, bits - 1, 2 * q)

\* what the f64 product nanos * SECONDS_PER_NANO * TWO_POW_32 adds to the
\* rounded quotient.  SECONDS_PER_NANO is not 10^-9 but the double next to
\* it, and the product is rounded to 53 bits: it stays within 10^-6 of the
\* quotient nanos * 2^23 / 5^9, whose distance to a tie is an odd multiple
\* of 1 / (2 * 5^9).  The product rounds the other way than the quotient for
\* the 256 nanoseconds from 500355614 on that are 355614 modulo 5^9, where
\* the quotient lies 1 / (2 * 5^9) under a tie and the product is the tie.
ProductExcess(nanos) ==
    IF nanos >= 500000000 /\ nanos % 1953125 = 355614 THEN 1 ELSE 0

\* (nanos * SECONDS_PER_NANO * TWO_POW_32).round(): nanos * 2^32 / 10^9
\* rounded to the nearest integer, and what the f64 product adds, as a wide
\* number
ScaleNanos(nanos) ==
    Let(ScaleBits(nanos, 16, 0), LAMBDA high :
    Let(ScaleBits(high[2], 16, 0), LAMBDA low :
    WideAdd(<<high[1], low[1]>>,
            <<0, (IF 2 * low[2] >= NANOS_PER_SECOND THEN 1 ELSE 0)
                   + ProductExcess(nanos)>>)))

\* `as u32` of a float that is no less than 0: saturating
SaturateU32(w) == IF w[1] >= Limb THEN <<Limb - 1, Limb - 1>> ELSE w

\* try_from that takes the low 32 bits of the seconds
try_from_wrapping(time) ==
    IF time.secs < 0 THEN Error("BeforeEpoch")
    ELSE Let(WideAdd(Wide(time.secs), UNIX_OFFSET), LAMBDA as_secs :
         [ok |-> TRUE,
          val |-> <<WideWord(as_secs), WideWord(SaturateU32(ScaleNanos(time.nanos)))>>])

\* impl TryFrom<SystemTime> for OscTime
try_from(time) ==
    IF time.secs < 0 THEN Error("BeforeEpoch")
    ELSE Let(WideAdd(Wide(time.secs), UNIX_OFFSET), LAMBDA as_secs :
         IF as_secs[1] >= Limb THEN Error("Overflow")
         ELSE [ok |-> TRUE,
               val |-> <<WideWord(as_secs),
                         WideWord(SaturateU32(ScaleNanos(time.nanos)))>>])

\* a 32-bit word `as u64`
WordWide(w) == <<(w \div Limb) % Limb, w % Limb>>

WideLess(a, b) == a[1] < b[1] \/ (a[1] = b[1] /\ a[2] < b[2])

\* u64 subtraction, for b no more than a
WideSub(a, b) ==
    IF a[2] >= b[2] THEN <<a[1] - b[1], a[2] - b[2]>>
    ELSE <<a[1] - b[1] - 1, a[2] + Limb - b[2]>>

\* a wide number under 2^31 as an integer
WideInt(w) == w[1] * Limb + w[2]

RECURSIVE NanosBits(_, _, _)
\* (y + bit * 10^9) / 2 for the `bits` low bits of limb, lowest first:
\* <<whole part, first bit behind the point>>.  Over the 32 bits of
\* fractional this is fractional * 10^9 / 2^32.
NanosBits(y, limb, bits) ==
    IF bits = 0 THEN y
    ELSE NanosBits(<<(y[1] + (limb % 2) * NANOS_PER_SECOND) \div 2,
                     (y[1] + (limb % 2) * NANOS_PER_SECOND) % 2>>,
                   limb \div 2, bits - 1)

\* ((time.fractional as f64) * ONE_OVER_TWO_POW_32 * NANOS_PER_SECOND)
\*     .round() as u32
\* Both products are exact in f64 (fractional * 5^9 is under 2^53), and
\* round() takes a half away from zero.
RoundNanos(fractional) ==
    Let(NanosBits(NanosBits(<<0, 0>>, WordWide(fractional)[2], 16),
                  WordWide(fractional)[1], 16),
        LAMBDA y : y[1] + y[2])

SystemTimeOk(t) == [st |-> "Ok", val |-> t]
SystemTimePanic == [st |-> "Panic"]

\* from that keeps the whole seconds only
from_whole_seconds(time) ==
    IF WideLess(WordWide(time[1]), UNIX_OFFSET) THEN SystemTimePanic
    ELSE SystemTimeOk([secs |-> WideInt(WideSub(WordWide(time[1]), UNIX_OFFSET)),
                       nanos |-> 0])

\* impl From<OscTime> for SystemTime.  Duration::new carries a full second
\* of nanoseconds into the seconds, and Duration - Duration panics when the
\* difference is negative.
from(time) ==
    Let(RoundNanos(time[2]), LAMBDA nanos :
    Let(WideAdd(WordWide(time[1]), <<0, nanos \div NANOS_PER_SECOND>>),
        LAMBDA duration_since_osc_epoch :
        IF WideLess(duration_since_osc_epoch, UNIX_OFFSET) THEN SystemTimePanic
        ELSE SystemTimeOk([secs |-> WideInt(WideSub(duration_since_osc_epoch, UNIX_OFFSET)),
                           nanos |-> nanos % NANOS_PER_SECOND])))

----------------------------------------------------------------------------
(* Addresses: src/src/address.rs                                           *)
(*                                                                         *)
(* A str is the sequence of its bytes; the parsers take the rest of the    *)
(* input and return Ok(rest, value) or an Error.                           *)

Drop(s, n) == SubSeq(s, n + 1, Len(s))

\* the length of the longest prefix of s whose characters all satisfy P
SpanLen(s, P(_)) ==
    IF \A i \in 1..Len(s) : P(s[i]) THEN Len(s)
    ELSE (CHOOSE i \in 1..Len(s) : ~P(s[i]) /\ \A j \in 1..(i - 1) : P(s[j])) - 1

\* printable ASCII but ' ', '#', '*', ',', '/', '?', '[', ']', '{', '}'
is_address_character(x) ==
    x \in 33..126 /\ x \notin {35, 42, 44, 47, 63, 91, 93, 123, 125}

\* take_while1(is_address_character)
take_while1_address(input) ==
    Let(SpanLen(input, is_address_character), LAMBDA n :
        IF n = 0 THEN Error("TakeWhile1")
        ELSE Ok(Drop(input, n), SubSeq(input, 1, n)))

\* tag(pattern)(input)
match_literally(input, pattern) ==
    IF Len(input) >= Len(pattern) /\ SubSeq(input, 1, Len(pattern)) = pattern
    THEN Ok(Drop(input, Len(pattern)), pattern)
    ELSE Error("Tag")

RECURSIVE separated_list1_rest(_, _)
\* separated_list1 after its first element: a separator that no element
\* follows is left in the input
separated_list1_rest(input, acc) ==
    IF input # <<>> /\ input[1] = 44
    THEN Let(take_while1_address(Tail(input)), LAMBDA e :
             IF e.ok THEN separated_list1_rest(e.rem, Append(acc, e.val))
             ELSE Ok(input, acc))
    ELSE Ok(input, acc)

\* '{' choice (',' choice)* '}'
pattern_choice(input) ==
    IF input = <<>> \/ input[1] # 123 THEN Error("Char")
    ELSE Let(take_while1_address(Tail(input)), LAMBDA first :
         IF ~first.ok THEN first
         ELSE Let(separated_list1_rest(first.rem, <<first.val>>), LAMBDA l :
              IF l.rem # <<>> /\ l.rem[1] = 125 THEN Ok(Tail(l.rem), l.val)
              ELSE Error("Char")))

\* verify(alt((separated_pair(c, '-', c), c.map(|c| ('\0', c)))), o1 < o2):
\* how many characters one range or character takes, 0 when it fails
class_item_len(input) ==
    IF Len(input) >= 3 /\ is_address_character(input[1]) /\ input[2] = 45
         /\ is_address_character(input[3])
    THEN (IF input[1] < input[3] THEN 3 ELSE 0)
    ELSE IF input # <<>> /\ is_address_character(input[1]) THEN 1
    ELSE 0

RECURSIVE class_items_len(_)
\* many1 of them: how many characters they take together
class_items_len(input) ==
    Let(class_item_len(input), LAMBDA n :
        IF n = 0 THEN 0 ELSE n + class_items_len(Drop(input, n)))

\* '[' '!'? (range | character)+ ']', the value is what the brackets hold
pattern_character_class(input) ==
    IF input = <<>> \/ input[1] # 91 THEN Error("Char")
    ELSE Let(IF Len(input) >= 2 /\ input[2] = 33 THEN 1 ELSE 0, LAMBDA bang :
         Let(class_items_len(Drop(input, 1 + bang)), LAMBDA n :
         IF n = 0 THEN Error("Many1")
         ELSE IF Len(input) >= 2 + bang + n /\ input[2 + bang + n] = 93
         THEN Ok(Drop(input, 2 + bang + n), SubSeq(input, 2, 1 + bang + n))
         ELSE Error("Char")))

expand_character_range(first, second) ==
    {c \in first..second : is_address_character(c)}

RECURSIVE class_characters(_)
\* many1(alt(('!' -> "", range -> expanded, character, '-'))) of
\* CharacterClass::new, collected into the HashSet; '-' is an address
\* character, so the last alternative never gets its turn
class_characters(input) ==
    IF input = <<>> THEN {}
    ELSE IF input[1] = 33 THEN class_characters(Tail(input))
    ELSE IF Len(input) >= 3 /\ is_address_character(input[1]) /\ input[2] = 45
              /\ is_address_character(input[3])
    THEN expand_character_range(input[1], input[3]) \cup class_characters(Drop(input, 3))
    ELSE IF is_address_character(input[1])
    THEN {input[1]} \cup class_characters(Tail(input))
    ELSE {}

\* CharacterClass::new
CharacterClass(s) ==
    IF s # <<>> /\ s[1] = 33
    THEN [negated |-> TRUE, characters |-> class_characters(Tail(s))]
    ELSE [negated |-> FALSE, characters |-> class_characters(s)]

\* enum AddressPatternComponent
Component(kind, val) == [kind |-> kind, val |-> val]

\* iter.peek() at the last component
NoComponent == Component("None", <<>>)

map_address_pattern_component(input) ==
    IF take_while1_address(input).ok
    THEN Let(take_while1_address(input), LAMBDA t : Ok(t.rem, Component("Tag", t.val)))
    ELSE IF input # <<>> /\ input[1] = 47 THEN Ok(Tail(input), Component("Tag", <<47>>))
    ELSE IF input # <<>> /\ input[1] = 63
    THEN Ok(Tail(input), Component("WildcardSingle", <<>>))
    ELSE IF SpanLen(input, LAMBDA c : c \in {42, 63}) > 0
    THEN Let(SpanLen(input, LAMBDA c : c \in {42, 63}), LAMBDA n :
             Ok(Drop(input, n),
                Component("Wildcard",
                          Len(SelectSeq(SubSeq(input, 1, n), LAMBDA c : c = 63)))))
    ELSE IF pattern_choice(input).ok
    THEN Let(pattern_choice(input), LAMBDA c : Ok(c.rem, Component("Choice", c.val)))
    ELSE Let(pattern_character_class(input), LAMBDA c :
             IF c.ok THEN Ok(c.rem, Component("CharacterClass", CharacterClass(c.val)))
             ELSE c)

RECURSIVE many1_components(_, _)
\* many1(map_address_pattern_component)
many1_components(input, acc) ==
    Let(map_address_pattern_component(input), LAMBDA c :
        IF c.ok THEN many1_components(c.rem, Append(acc, c.val))
        ELSE IF acc = <<>> THEN c
        ELSE Ok(input, acc))

\* one alternative of address_pattern_part_parser
pattern_part_item(input) ==
    IF take_while1_address(input).ok THEN take_while1_address(input)
    ELSE IF input # <<>> /\ input[1] \in {63, 42} THEN Ok(Tail(input), <<input[1]>>)
    ELSE IF pattern_choice(input).ok THEN pattern_choice(input)
    ELSE pattern_character_class(input)

RECURSIVE address_pattern_part_parser(_, _)
\* many1 of the alternatives; n counts the items taken
address_pattern_part_parser(input, n) ==
    Let(pattern_part_item(input), LAMBDA item :
        IF item.ok THEN address_pattern_part_parser(item.rem, n + 1)
        ELSE IF n = 0 THEN item
        ELSE Ok(input, n))

RECURSIVE verify_address_pattern_parts(_, _)
\* all_consuming(many1(pair(tag("/"), address_pattern_part_parser)))
verify_address_pattern_parts(input, n) ==
    IF input # <<>> /\ input[1] = 47 /\ address_pattern_part_parser(Tail(input), 0).ok
    THEN verify_address_pattern_parts(address_pattern_part_parser(Tail(input), 0).rem, n + 1)
    ELSE n > 0 /\ input = <<>>

\* Ok(()) is TRUE
verify_address_pattern(input) == verify_address_pattern_parts(input, 0)

RECURSIVE verify_address_parts(_, _)
\* all_consuming(many1(pair(tag("/"), take_while1(is_address_character))))
verify_address_parts(input, n) ==
    IF input # <<>> /\ input[1] = 47 /\ take_while1_address(Tail(input)).ok
    THEN verify_address_parts(take_while1_address(Tail(input)).rem, n + 1)
    ELSE n > 0 /\ input = <<>>

verify_address(input) == verify_address_parts(input, 0)

\* Matcher::new
Matcher(pattern) ==
    IF ~verify_address_pattern(pattern) THEN Error("BadAddress")
    ELSE Let(many1_components(pattern, <<>>), LAMBDA r :
         IF ~r.ok \/ r.rem # <<>> THEN Error("BadAddressPattern")
         ELSE [ok |-> TRUE, val |-> [pattern |-> pattern, pattern_parts |-> r.val]])

match_wildcard_single(input) ==
    IF input # <<>> /\ is_address_character(input[1])
    THEN Ok(Tail(input), <<input[1]>>)
    ELSE Error("TakeWhileMN")

\* is_not(characters) when negated, is_a(characters) when not: the longest
\* run of such characters, and at least one
match_character_class(input, character_class) ==
    Let(SpanLen(input, LAMBDA c :
                  (c \in character_class.characters) # character_class.negated),
        LAMBDA n :
        IF n = 0 THEN Error("IsA") ELSE Ok(Drop(input, n), SubSeq(input, 1, n)))

match_choice(input, choices) ==
    IF \E i \in 1..Len(choices) : match_literally(input, choices[i]).ok
    THEN match_literally(input,
             choices[CHOOSE i \in 1..Len(choices) :
                        /\ match_literally(input, choices[i]).ok
                        /\ \A j \in 1..(i - 1) : ~match_literally(input, choices[j]).ok])
    ELSE Error("Tag")

\* the match on the component that follows a wildcard
match_next(substring, component) ==
    CASE component.kind = "Tag" -> match_literally(substring, component.val)
      [] component.kind = "CharacterClass" -> match_character_class(substring, component.val)
      [] component.kind = "Choice" -> match_choice(substring, component.val)
      [] OTHER -> Error("Panic")

\* verify(p, |s| s.len() >= minimum_length)
verify_minimum(r, minimum_length) ==
    IF r.ok /\ Len(r.val) < minimum_length THEN Error("Verify") ELSE r

match_wildcard(input, minimum_length, next) ==
    IF next.kind = "None" \/ (next.kind = "Tag" /\ next.val = <<47>>)
    THEN verify_minimum(take_while1_address(input), minimum_length)
    ELSE Let(SpanLen(input, LAMBDA c : c # 47), LAMBDA address_part_len :
         IF address_part_len > 0 /\ next.kind \in {"WildcardSingle", "Wildcard"}
         THEN Error("Panic")
         ELSE Let(IF \E i \in 0..(address_part_len - 1) : match_next(Drop(input, i), next).ok
                  THEN CHOOSE i \in 0..(address_part_len - 1) :
                          /\ match_next(Drop(input, i), next).ok
                          /\ \A j \in (i + 1)..(address_part_len - 1) :
                                ~match_next(Drop(input, j), next).ok
                  ELSE 0,
                  LAMBDA longest :
                  verify_minimum(Ok(Drop(input, longest), SubSeq(input, 1, longest)),
                                 minimum_length)))

RECURSIVE match_parts(_, _, _)
\* the loop of match_address over pattern_parts, from the i-th on
match_parts(remainder, parts, i) ==
    IF i > Len(parts) THEN remainder = <<>>
    ELSE Let(CASE parts[i].kind = "Tag" -> match_literally(remainder, parts[i].val)
               [] parts[i].kind = "WildcardSingle" -> match_wildcard_single(remainder)
               [] parts[i].kind = "Wildcard" ->
                     match_wildcard(remainder, parts[i].val,
                                    IF i < Len(parts) THEN parts[i + 1] ELSE NoComponent)
               [] parts[i].kind = "CharacterClass" ->
                     match_character_class(remainder, parts[i].val)
               [] parts[i].kind = "Choice" -> match_choice(remainder, parts[i].val),
             LAMBDA result :
             IF result.ok THEN match_parts(result.rem, parts, i + 1) ELSE FALSE)

\* Matcher::match_address
match_address(matcher, address) ==
    IF address = matcher.pattern THEN TRUE
    ELSE match_parts(address, matcher.pattern_parts, 1)

----------------------------------------------------------------------------
(* The packets the sender draws from.                                      *)

Lens == 0..MaxLen

\* "/abcd..." cut to n bytes: the empty address for n = 0
AddrOf(n) == [i \in 1..n |-> IF i = 1 THEN 47 ELSE 95 + i]
\* "hijk..." cut to n bytes
StrOf(n) == [i \in 1..n |-> 103 + i]
\* the blob 1, 2, ..., n
BlobOf(n) == [i \in 1..n |-> i]

TimeTag == <<1234, 4321>>

CoreAtoms ==
    {Arg("Int", <<440>>), Arg("String", StrOf(3)), Arg("Bool", <<1>>)}
      \cup {Arg("Blob", BlobOf(n)) : n \in Lens}

OtherAtoms ==
    {Arg("Long", <<0, 42>>), Arg("Float", <<1063675494>>),
     Arg("Double", <<1074340347, 1413754136>>), Arg("Char", <<99>>),
     Arg("Time", <<123, 456>>), Arg("Midi", <<4, 41, 42, 129>>),
     Arg("Color", <<255, 192, 42, 13>>), Arg("Bool", <<0>>),
     Arg("Nil", <<>>), Arg("Inf", <<>>)}
      \cup {Arg("String", StrOf(n)) : n \in Lens}

SeqsUpTo(S, n) == UNION {[1..k -> S] : k \in 0..n}

Arrays ==
    {Arg("Array", c) : c \in SeqsUpTo({Arg("Int", <<440>>), Arg("String", StrOf(3))}, 2)}
      \cup {Arg("Array", <<Arg("Int", <<42>>),
                           Arg("Array", <<Arg("Double", <<0, 1>>), Arg("Blob", BlobOf(1))>>),
                           Arg("String", StrOf(3))>>)}

ArgLists ==
    SeqsUpTo(CoreAtoms, MaxArgs)
      \cup {<<a>> : a \in OtherAtoms \cup Arrays}
      \cup {<<a, Arg("Int", <<440>>)>> : a \in Arrays}

Msgs ==
    {Message(AddrOf(n), <<>>) : n \in Lens}
      \cup {Message(AddrOf(2), args) : args \in ArgLists}

\* the messages that bundles and streams are made of
SmallMsgs ==
    {Message(AddrOf(2), <<>>), Message(AddrOf(3), <<Arg("Int", <<440>>)>>),
     Message(AddrOf(2), <<Arg("Blob", BlobOf(1))>>),
     Message(AddrOf(2), <<Arg("Blob", BlobOf(0))>>)}

RECURSIVE Nodes(_)
RECURSIVE NodesOf(_, _)
\* the packets in a sequence of packets from element i on, nested ones included
NodesOf(ps, i) == IF i > Len(ps) THEN 0 ELSE Nodes(ps[i]) + NodesOf(ps, i + 1)
Nodes(p) == IF IsMessage(p) THEN 1 ELSE 1 + NodesOf(p.content, 1)

RECURSIVE Trees(_)
RECURSIVE Forests(_)
\* the packets of at most n nodes over SmallMsgs, n >= 1
Trees(n) == SmallMsgs \cup {Bundle(TimeTag, f) : f \in Forests(n - 1)}
\* the sequences of such packets of at most n nodes in total
Forests(n) ==
    IF n = 0 THEN {<<>>}
    ELSE {<<>>} \cup UNION {{<<p>> \o f : f \in Forests(n - Nodes(p))} : p \in Trees(n)}

Packets == Msgs \cup Trees(MaxNodes)

----------------------------------------------------------------------------
(* Datagrams that did not come from this encoder: messages built by hand   *)
(* around a type-tag string, as tests/decoder_test.rs builds them, and     *)
(* buffers that are no packet.                                             *)

\* 'i', 'T', '[' and ']'
TagAlphabet == {105, 84, 91, 93}

TagStrings == SeqsUpTo(TagAlphabet, MaxTags)

RECURSIVE IntPayload(_, _, _)
\* one int per 'i' of tags[i..]: the k+1st int of the message is k+1
IntPayload(tags, i, k) ==
    IF i > Len(tags) THEN <<>>
    ELSE IF tags[i] = 105 THEN to_be_bytes(k + 1) \o IntPayload(tags, i + 1, k + 1)
    ELSE IntPayload(tags, i + 1, k)

\* the message "/a" with the type tags `tags` and its ints
RawMessage(tags) ==
    encode_string(AddrOf(2)) \o encode_string(<<44>> \o tags) \o IntPayload(tags, 1, 0)

\* "", "a", "abc", "a/", "#", "#bundl", "#bundlex" and "#Bundle" as padded
\* strings, the last three with a time tag behind them; "abc" and "#bundle"
\* without the NUL; a string that is no UTF-8; an empty bundle; a bundle
\* whose one element declares 12 bytes and holds the 8 bytes of the message
\* "/a" and 4 more
OtherDatagrams ==
    {<<>>, encode_string(<<>>), encode_string(<<97>>), encode_string(<<97, 98, 99>>),
     encode_string(<<97, 47>>), encode_string(<<35>>),
     encode_string(<<35, 98, 117, 110, 100, 108>>) \o Zeros(8),
     encode_string(BundleTag \o <<120>>) \o Zeros(8),
     encode_string(<<35, 66, 117, 110, 100, 108, 101>>) \o Zeros(8),
     <<97, 98, 99>>, BundleTag, <<200, 0, 0, 0>>,
     encode_string(BundleTag) \o Zeros(8),
     encode_string(BundleTag) \o Zeros(8) \o to_be_bytes(12)
         \o encode_string(AddrOf(2)) \o encode_string(<<44>>) \o <<1, 2, 3, 4>>}

RawDatagrams == {RawMessage(tags) : tags \in TagStrings} \cup OtherDatagrams

----------------------------------------------------------------------------
(* The sender.                                                             *)

NoPacket == <<>>
NoResult == <<>>
NoSink == <<>>
NoArg == <<>>

Init ==
    /\ packet = NoPacket
    /\ enc = [st |-> "Ok", n |-> 0]
    /\ mode = "idle"
    /\ sent = <<>>
    /\ buf = <<>>
    /\ cut = 0
    /\ op = "init"
    /\ res = NoResult
    /\ output = NoSink
    /\ marks = <<>>
    /\ operand = NoArg

\* encoder::encode(&p), the bytes sent as one datagram
Encode(p) ==
    /\ mode = "idle"
    /\ \E w \in {encode(p)} :
           /\ enc' = [st |-> w.st, n |-> w.n]
           /\ buf' = w.out
    /\ packet' = p
    /\ mode' = "udp"
    /\ sent' = <<p>>
    /\ cut' = 0
    /\ op' = "encode"
    /\ res' = NoResult
    /\ UNCHANGED <<output, marks, operand>>

\* a datagram from another sender arrives
Receive(raw) ==
    /\ mode = "idle"
    /\ buf' = raw
    /\ mode' = "raw"
    /\ op' = "receive"
    /\ UNCHANGED <<packet, enc, sent, cut, res, output, marks, operand>>

\* one stream frame, as the tests build it: the length of the encoded packet
\* as a big-endian u32, then the encoded packet
frame(p) ==
    Let(encode(p), LAMBDA w :
    [st |-> w.st, n |-> w.n, out |-> to_be_bytes(Len(w.out)) \o w.out])

\* the sender writes one more frame to the stream
EncodeTcp(p) ==
    /\ mode \in {"idle", "tcp"}
    /\ cut = 0
    /\ res = NoResult
    /\ NodesOf(sent, 1) + Nodes(p) <= MaxNodes
    /\ \E w \in {frame(p)} :
           /\ enc' = [st |-> w.st, n |-> w.n]
           /\ buf' = buf \o w.out
    /\ packet' = p
    /\ mode' = "tcp"
    /\ sent' = Append(sent, p)
    /\ op' = "encode_tcp"
    /\ UNCHANGED <<cut, res, output, marks, operand>>

\* the last byte of what was sent has not reached the receiver
Truncate ==
    /\ mode \in {"udp", "tcp"}
    /\ res = NoResult
    /\ cut < MaxCut
    /\ buf # <<>>
    /\ buf' = SubSeq(buf, 1, Len(buf) - 1)
    /\ cut' = cut + 1
    /\ op' = "truncate"
    /\ UNCHANGED <<packet, enc, mode, sent, res, output, marks, operand>>

(* A caller that drives a sink itself. *)

\* what the caller writes, the sizes it marks, and what it places
WriteData == {<<7>>, <<8, 9>>}
MarkSizes == {1, 4}
PlaceData(size) == [i \in 1..size |-> 170 + i]

\* the strings handed to encode_string and encode_string_into
Strings == {StrOf(n) : n \in Lens}

\* Vec::new(), or WriteOutput(Cursor::new(Vec::new()))
NewSink(sink) ==
    /\ mode = "idle"
    /\ output' = sink
    /\ mode' = "sink"
    /\ op' = "new"
    /\ UNCHANGED <<packet, enc, sent, buf, cut, res, marks, operand>>

\* output.write(data)
SinkWrite(data) ==
    /\ mode = "sink"
    /\ Len(output.bytes) + Len(data) <= MaxSink
    /\ \E w \in {write(output, data)} :
           /\ output' = w.out
           /\ enc' = [st |-> w.st, n |-> w.n]
    /\ operand' = data
    /\ op' = "write"
    /\ UNCHANGED <<packet, mode, sent, buf, cut, res, marks>>

\* output.mark(size); the caller keeps the mark, and notes where the sink
\* ended when it took it
SinkMark(size) ==
    /\ mode = "sink"
    /\ Len(marks) < MaxMarks
    /\ Len(output.bytes) + size <= MaxSink
    /\ \E w \in {mark(output, size)} :
           /\ output' = w.out
           /\ enc' = [st |-> w.st, n |-> 0]
           /\ marks' = Append(marks, [mark |-> w.mark, at |-> Len(output.bytes), size |-> size])
    /\ operand' = size
    /\ op' = "mark"
    /\ UNCHANGED <<packet, mode, sent, buf, cut, res>>

\* output.place(mark, data) for the k-th outstanding mark, with as many bytes
\* as were marked
SinkPlace(k) ==
    /\ mode = "sink"
    /\ k \in 1..Len(marks)
    /\ \E w \in {place(output, marks[k].mark, PlaceData(marks[k].size))} :
           /\ output' = w.out
           /\ enc' = [st |-> w.st, n |-> 0]
    /\ marks' = SubSeq(marks, 1, k - 1) \o SubSeq(marks, k + 1, Len(marks))
    /\ operand' = PlaceData(marks[k].size)
    /\ op' = "place"
    /\ UNCHANGED <<packet, mode, sent, buf, cut, res>>

\* encoder::encode_into(&p, &mut output), on a new sink or behind a few
\* bytes the caller wrote
EncodeInto(p) ==
    /\ mode = "sink"
    /\ op \in {"new", "write"}
    /\ marks = <<>>
    /\ Len(output.bytes) <= MaxOld
    /\ \E w \in {encode_into(p, output)} :
           /\ output' = w.out
           /\ enc' = [st |-> w.st, n |-> w.n]
    /\ packet' = p
    /\ op' = "encode_into"
    /\ UNCHANGED <<mode, sent, buf, cut, res, marks, operand>>

\* encoder::encode_string_into(s, &mut output)
EncodeStringInto(s) ==
    /\ mode = "sink"
    /\ marks = <<>>
    /\ Len(output.bytes) <= MaxOld
    /\ \E w \in {encode_string_into(s, output)} :
           /\ output' = w.out
           /\ enc' = [st |-> w.st, n |-> w.n]
    /\ operand' = s
    /\ op' = "encode_string_into"
    /\ UNCHANGED <<packet, mode, sent, buf, cut, res, marks>>

\* encoder::encode_string(s): buf is the vector returned
EncodeString(s) ==
    /\ mode = "idle"
    /\ buf' = encode_string(s)
    /\ operand' = s
    /\ mode' = "string"
    /\ op' = "encode_string"
    /\ UNCHANGED <<packet, enc, sent, cut, res, output, marks>>

\* the last second an OscTime holds, counted from the UNIX epoch:
\* u32::MAX - UNIX_OFFSET
LastSecond == 2085978495

\* the times the clock is read at
SystemTimes ==
    [secs : (-Around..Around) \cup {LastSecond + d : d \in -Around..Around}
              \cup {2147483647},
     nanos : {0, 1, 355614, 499999999, 500000000, 500355614, 999999999}]

\* the 32-bit word of an unsigned number given in two limbs
Word(high, low) == WideWord(<<high, low>>)

\* the time tags converted: seconds from 1900 on, around 1970 and up to
\* the last, with fractions at both ends and around the middle
OscTimes ==
    {<<seconds, fractional>> :
       seconds \in (0..Around) \cup {WideWord(UNIX_OFFSET) + d : d \in -Around..Around}
                     \cup {Word(Limb - 1, Limb - 1) - d : d \in 0..Around},
       fractional \in {0, 1, 2, 21, 100, Word(32767, 65535), Word(32768, 0),
                        Word(65535, 65533), Word(65535, 65534), Word(65535, 65535)}}

\* OscTime::try_from(time)
TryFrom(time) ==
    /\ mode = "idle"
    /\ res' = try_from(time)
    /\ operand' = time
    /\ mode' = "time"
    /\ op' = "try_from"
    /\ UNCHANGED <<packet, enc, sent, buf, cut, output, marks>>

\* what a part of a pattern is drawn from: a ? * *b [!a] [a-b] {a,b}
PatternParts ==
    {<<97>>, <<63>>, <<42>>, <<42, 98>>, <<91, 33, 97, 93>>, <<91, 97, 45, 98, 93>>,
     <<123, 97, 44, 98, 125>>}

\* what a part of an address is drawn from: a b ab
AddressParts == {<<97>>, <<98>>, <<97, 98>>}

RECURSIVE PathsOf(_, _)
\* the strings of n parts, each behind a '/'
PathsOf(parts, n) ==
    IF n = 0 THEN {<<>>}
    ELSE {path \o <<47>> \o part : path \in PathsOf(parts, n - 1), part \in parts}

\* patterns of two parts: a, * or [!a], then b, *b or {a,b}
TwoPartPatterns ==
    {<<47>> \o first \o <<47>> \o second :
        first \in {<<97>>, <<42>>, <<91, 33, 97, 93>>},
        second \in {<<98>>, <<42, 98>>, <<123, 97, 44, 98, 125>>}}

\* the patterns matchers are made of, and three that are none:
\* /[!] /[b-a] a/
Patterns ==
    PathsOf(PatternParts, 1) \cup TwoPartPatterns
      \cup {<<47, 91, 33, 93>>, <<47, 91, 98, 45, 97, 93>>, <<97, 47>>}

\* the addresses matched, and /a/ that is none
Addresses ==
    UNION {PathsOf(AddressParts, n) : n \in 1..MaxParts} \cup {<<47, 97, 47>>}

\* Matcher::new(pattern)?.match_address(&OscAddress::new(address)?)
MatchAddress(pattern, address) ==
    /\ mode = "idle"
    /\ res' = IF ~Matcher(pattern).ok THEN Matcher(pattern)
              ELSE IF ~verify_address(address) THEN Error("BadAddress")
              ELSE [ok |-> TRUE, val |-> match_address(Matcher(pattern).val, address)]
    /\ operand' = <<pattern, address>>
    /\ mode' = "match"
    /\ op' = "match_address"
    /\ UNCHANGED <<packet, enc, sent, buf, cut, output, marks>>

\* SystemTime::from(time)
From(time) ==
    /\ mode = "idle"
    /\ res' = from(time)
    /\ operand' = time
    /\ mode' = "time"
    /\ op' = "from"
    /\ UNCHANGED <<packet, enc, sent, buf, cut, output, marks>>

\* OscTime::try_from(SystemTime::from(osc_time)): the second half
FromTryFrom ==
    /\ mode = "time"
    /\ op = "from"
    /\ res.st = "Ok"
    /\ res' = try_from(res.val)
    /\ op' = "from_try_from"
    /\ UNCHANGED <<packet, enc, mode, sent, buf, cut, output, marks, operand>>

\* SystemTime::from(OscTime::try_from(time).unwrap()): the second half
TryFromFrom ==
    /\ mode = "time"
    /\ op = "try_from"
    /\ res.ok
    /\ res' = from(res.val)
    /\ op' = "try_from_from"
    /\ UNCHANGED <<packet, enc, mode, sent, buf, cut, output, marks, operand>>

(* The receiver. *)

DecodeUdp ==
    /\ mode \in {"udp", "raw"}
    /\ res = NoResult
    /\ res' = decode_udp(buf)
    /\ op' = "decode_udp"
    /\ UNCHANGED <<packet, enc, mode, sent, buf, cut, output, marks, operand>>

DecodeTcp ==
    /\ mode = "tcp"
    /\ res = NoResult
    /\ res' = decode_tcp(buf)
    /\ op' = "decode_tcp"
    /\ UNCHANGED <<packet, enc, mode, sent, buf, cut, output, marks, operand>>

DecodeTcpVec ==
    /\ mode = "tcp"
    /\ res = NoResult
    /\ res' = decode_tcp_vec(buf)
    /\ op' = "decode_tcp_vec"
    /\ UNCHANGED <<packet, enc, mode, sent, buf, cut, output, marks, operand>>

Next ==
    \/ \E p \in Packets : Encode(p)
    \/ \E p \in Trees(MaxNodes) : EncodeTcp(p)
    \/ \E raw \in RawDatagrams : Receive(raw)
    \/ \E sink \in {VecNew, WriteOutputNew} : NewSink(sink)
    \/ \E data \in WriteData : SinkWrite(data)
    \/ \E size \in MarkSizes : SinkMark(size)
    \/ \E k \in 1..MaxMarks : SinkPlace(k)
    \/ \E p \in Packets : EncodeInto(p)
    \/ \E s \in Strings : EncodeStringInto(s)
    \/ \E s \in Strings : EncodeString(s)
    \/ \E time \in SystemTimes : TryFrom(time)
    \/ \E time \in OscTimes : From(time)
    \/ FromTryFrom
    \/ \E pattern \in Patterns, address \in Addresses : MatchAddress(pattern, address)
    \/ TryFromFrom
    \/ Truncate
    \/ DecodeUdp
    \/ DecodeTcp
    \/ DecodeTcpVec

Spec == Init /\ [][Next]_vars

----------------------------------------------------------------------------
(* Predicates on packets used to state the properties.                     *)

RECURSIVE AlignedBlobIn(_, _)
\* some blob among args[i..], nested arrays included, has a length that is
\* a multiple of 4 (0 included)
AlignedBlobIn(args, i) ==
    /\ i <= Len(args)
    /\ \/ args[i].tag = "Blob" /\ Len(args[i].val) % 4 = 0
       \/ args[i].tag = "Array" /\ AlignedBlobIn(args[i].val, 1)
       \/ AlignedBlobIn(args, i + 1)

RECURSIVE ValidAddresses(_)
\* every message of the packet has an address that starts with '/'
ValidAddresses(p) ==
    IF IsMessage(p) THEN p.addr # <<>> /\ p.addr[1] = 47
    ELSE \A i \in 1..Len(p.content) : ValidAddresses(p.content[i])

RECURSIVE NoAlignedBlob(_)
\* no message of the packet carries a blob whose length is a multiple of 4
NoAlignedBlob(p) ==
    IF IsMessage(p) THEN ~AlignedBlobIn(p.args, 1)
    ELSE \A i \in 1..Len(p.content) : NoAlignedBlob(p.content[i])

RECURSIVE HasEmptyAddress(_)
HasEmptyAddress(p) ==
    IF IsMessage(p) THEN p.addr = <<>>
    ELSE \E i \in 1..Len(p.content) : HasEmptyAddress(p.content[i])

\* the number of type-tag characters the arguments of a message make
TagCount(args) == encode_arg_types(args, 1, VecNew, 0).n

\* the offset at which the argument payloads of the encoded message start
PayloadOffset(msg) == pad(Len(msg.addr) + 1) + pad(1 + TagCount(msg.args) + 1)

\* the declared length of the first frame of the stream, when buf holds a
\* whole length prefix
FirstFrameLength == as_usize(from_be_bytes(buf, 0))

----------------------------------------------------------------------------
(* Properties.                                                             *)

\* C1: round trip.  For every packet p whose addresses are valid,
\* decode_udp(encode(p)) succeeds with an empty remainder and a packet equal
\* to p.
C1_RoundTrip ==
    (op = "decode_udp" /\ mode = "udp" /\ cut = 0 /\ ValidAddresses(packet))
        => (res.ok /\ res.rem = <<>> /\ res.val = packet)

\* C2: whenever the buffer starts with a length prefix declaring L bytes and
\* fewer than L bytes follow it, decode_tcp returns Ok with the input
\* unchanged as remainder and no packet, never an error.
C2_InsufficientData ==
    (op = "decode_tcp" /\ Len(buf) >= 4 /\ FirstFrameLength > Len(buf) - 4)
        => (res.ok /\ res.rem = buf /\ res.val = None)

\* C3: whenever at least L bytes follow the prefix declaring L, decode_tcp
\* decodes exactly those L bytes as one packet (the packet the sender framed
\* first) and returns as remainder exactly the bytes after offset 4 + L,
\* whatever the packet kind and whatever follows the frame.
C3_CompleteFrame ==
    (op = "decode_tcp" /\ Len(buf) >= 4 /\ FirstFrameLength <= Len(buf) - 4
       /\ NoAlignedBlob(sent[1]))
        => (/\ res.ok
            /\ res.val = Some(sent[1])
            /\ res.rem = Slice(buf, 4 + FirstFrameLength, Len(buf)))

\* the datagram is a bundle whose last element has its length prefix but has
\* lost its last `cut` bytes, so that it declares more bytes than remain
LastElementCutShort ==
    /\ mode = "udp"
    /\ IsBundle(packet)
    /\ packet.content # <<>>
    /\ cut > 0
    /\ cut <= Len(encode(packet.content[Len(packet.content)]).out)

\* C4: fail-fast decoding.  If an element of a bundle declares a length
\* exceeding the bytes remaining, decode_udp returns an error for the whole
\* packet, never Ok with the bundle cut down to the elements before it.
C4_FailFast ==
    (op = "decode_udp" /\ LastElementCutShort /\ NoAlignedBlob(packet))
        => ~res.ok

\* C5: blob framing agreement.  For a message whose first argument is a blob
\* of n bytes, the encoder emits the big-endian n, the n bytes and zeros up
\* to the next multiple of 4, and the decoder's blob read consumes exactly
\* those 4 + pad(n) bytes.
C5_BlobFraming ==
    (op = "encode" /\ IsMessage(packet) /\ packet.args # <<>>
       /\ packet.args[1].tag = "Blob")
        => LET blob == packet.args[1].val
               n == Len(blob)
               off == PayloadOffset(packet)
           IN  /\ Len(buf) >= off + 4 + pad(n)
               /\ Slice(buf, off, off + 4 + pad(n))
                    = to_be_bytes(n) \o blob \o Zeros(pad(n) - n)
               /\ read_blob(buf, off, Len(buf)).ok
               /\ read_blob(buf, off, Len(buf)).rem = off + 4 + pad(n)

\* C6: padding invariant.  The byte sequence encode(p) returns has a length
\* that is a multiple of 4, for every packet p.
C6_PaddingInvariant == op = "encode" => Len(buf) % 4 = 0

\* a message "/a" with a one-byte blob and a three-byte string was encoded:
\* 4 + 4 + 8 + 4 bytes
C6_Witness ==
    /\ op = "encode"
    /\ packet = Message(AddrOf(2), <<Arg("Blob", BlobOf(1)), Arg("String", StrOf(3))>>)
    /\ Len(buf) = 20

\* C7: trailing-packet absorption.  decode_tcp_vec applied to a bundle's
\* frame immediately followed by another packet's frame returns a single
\* bundle, the original content with the trailing packet appended as its
\* last element, and an empty remainder.
C7_Absorption ==
    (op = "decode_tcp_vec" /\ cut = 0 /\ Len(sent) = 2 /\ IsBundle(sent[1]))
        => (/\ res.ok
            /\ res.rem = <<>>
            /\ res.val = <<Bundle(sent[1].timetag, Append(sent[1].content, sent[2]))>>)

\* C8: decode_tcp_vec drains frames in order.  For a concatenation of
\* well-formed frames in which no frame other than the last holds a bundle,
\* it returns exactly the framed packets in stream order and an empty
\* remainder.
C8_DrainInOrder ==
    (op = "decode_tcp_vec" /\ cut = 0
       /\ \A i \in 1..(Len(sent) - 1) : IsMessage(sent[i]))
        => (res.ok /\ res.rem = <<>> /\ res.val = sent)

\* C9: encoding rejects empty addresses.  encode returns an error for a
\* message whose addr is the empty string.
C9_RejectEmptyAddress ==
    (op = "encode" /\ HasEmptyAddress(packet)) => enc.st = "Err"

----------------------------------------------------------------------------
(* The wire layout of the OSC format, written down independently of the    *)
(* encoder.                                                                *)

\* a string, its NUL terminator and the NULs up to the next multiple of 4
PaddedString(s) == s \o Zeros(4 - (Len(s) % 4))

\* the type-tag character of an argument that is not an array
LayoutTag(arg) ==
    CASE arg.tag = "Int" -> 105 [] arg.tag = "Long" -> 104
      [] arg.tag = "Float" -> 102 [] arg.tag = "Double" -> 100
      [] arg.tag = "Char" -> 99 [] arg.tag = "String" -> 115
      [] arg.tag = "Blob" -> 98 [] arg.tag = "Time" -> 116
      [] arg.tag = "Midi" -> 109 [] arg.tag = "Color" -> 114
      [] arg.tag = "Bool" -> (IF arg.val = <<1>> THEN 84 ELSE 70)
      [] arg.tag = "Nil" -> 78 [] arg.tag = "Inf" -> 73

RECURSIVE LayoutTags(_, _)
\* the tags of args[i..] in order, '[' and ']' around those of an array
LayoutTags(args, i) ==
    IF i > Len(args) THEN <<>>
    ELSE (IF args[i].tag = "Array"
          THEN <<91>> \o LayoutTags(args[i].val, 1) \o <<93>>
          ELSE <<LayoutTag(args[i])>>) \o LayoutTags(args, i + 1)

RECURSIVE LayoutPayload(_, _)
\* the payloads of args[i..] in tag order
LayoutPayload(args, i) ==
    IF i > Len(args) THEN <<>>
    ELSE LET a == args[i]
             own ==
               CASE a.tag \in {"Int", "Float", "Char"} -> to_be_bytes(a.val[1])
                 [] a.tag \in {"Long", "Double", "Time"} ->
                       to_be_bytes(a.val[1]) \o to_be_bytes(a.val[2])
                 [] a.tag = "String" -> PaddedString(a.val)
                 [] a.tag = "Blob" ->
                       to_be_bytes(Len(a.val)) \o a.val
                         \o Zeros((4 - (Len(a.val) % 4)) % 4)
                 [] a.tag \in {"Midi", "Color"} -> a.val
                 [] a.tag \in {"Bool", "Nil", "Inf"} -> <<>>
                 [] a.tag = "Array" -> LayoutPayload(a.val, 1)
         IN  own \o LayoutPayload(args, i + 1)

MessageLayout(msg) ==
    PaddedString(msg.addr)
      \o PaddedString(<<44>> \o LayoutTags(msg.args, 1))
      \o LayoutPayload(msg.args, 1)

RECURSIVE ChildrenLayout(_, _)
\* for each child from i on, the length of its encoding and its encoding
ChildrenLayout(content, i) ==
    IF i > Len(content) THEN <<>>
    ELSE LET child == encode(content[i]).out
         IN  to_be_bytes(Len(child)) \o child \o ChildrenLayout(content, i + 1)

BundleLayout(bundle) ==
    <<35, 98, 117, 110, 100, 108, 101, 0>>
      \o to_be_bytes(bundle.timetag[1]) \o to_be_bytes(bundle.timetag[2])
      \o ChildrenLayout(bundle.content, 1)

\* C11: message wire layout.  encode(Message{addr, args}) is the NUL-padded
\* address, the NUL-padded type-tag string (',' then one tag per argument in
\* order, '[' and ']' around the tags of an array's contents), then the
\* payloads in tag order; Bool, Nil and Inf add no payload bytes and an
\* array adds only the payloads of its contents.
C11_MessageLayout ==
    (op = "encode" /\ IsMessage(packet))
        => (enc.st = "Ok" /\ buf = MessageLayout(packet))

\* the message "/a" with the arguments [42, [double, blob], "hij"] and 440
\* was encoded: the tags ",[i[db]s]i" and 28 bytes of payload
C11_Witness ==
    /\ op = "encode"
    /\ IsMessage(packet)
    /\ Len(packet.args) = 2
    /\ packet.args[1].tag = "Array"
    /\ Len(packet.args[1].val) = 3
    /\ Slice(buf, 4, 14) = <<44, 91, 105, 91, 100, 98, 93, 115, 93, 105>>
    /\ Len(buf) = 44

\* C12: bundle wire layout.  encode(Bundle{timetag, content}) is '#bundle'
\* and a NUL, the seconds and the fractional as big-endian words, then for
\* each child in order the 4-byte big-endian length of the child's encoding
\* followed by that encoding; an empty bundle is the 16-byte header.
C12_BundleLayout ==
    (op = "encode" /\ IsBundle(packet))
        => (/\ enc.st = "Ok"
            /\ buf = BundleLayout(packet)
            /\ (packet.content = <<>> => Len(buf) = 16))

\* a bundle holding a bundle holding the message "/a" was encoded: the
\* lengths 28 and 8 stand before the children
C12_Witness ==
    /\ op = "encode"
    /\ packet = Bundle(TimeTag, <<Bundle(TimeTag, <<Message(AddrOf(2), <<>>)>>)>>)
    /\ Len(buf) = 48
    /\ from_be_bytes(buf, 16) = 28
    /\ from_be_bytes(buf, 36) = 8

----------------------------------------------------------------------------
(* Type-tag strings and the argument tree they describe.                   *)

\* buf is a hand-built message "/a": the tags stand after "/a\0\0" and ','
IsRawMessage == mode = "raw" /\ Len(buf) >= 8 /\ buf[1] = 47

\* the type tags of that message, without the ','
RawTags == Slice(buf, 5, take_till_nul(buf, 4, Len(buf)))

RECURSIVE Depth(_, _)
\* how many '[' are open after the first n tags
Depth(tags, n) ==
    IF n = 0 THEN 0
    ELSE Depth(tags, n - 1)
           + (IF tags[n] = 91 THEN 1 ELSE IF tags[n] = 93 THEN -1 ELSE 0)

WellMatched(tags) ==
    /\ \A n \in 0..Len(tags) : Depth(tags, n) >= 0
    /\ Depth(tags, Len(tags)) = 0

\* some ']' stands where no '[' is open
UnmatchedClose(tags) == \E n \in 1..Len(tags) : Depth(tags, n) < 0

RECURSIVE Group(_, _, _)
\* the arguments that tags[i..] describe up to the ']' that closes the
\* group they stand in (or the end), read by descent: `next` is the
\* position of that ']' and k the number of ints read so far
Group(tags, i, k) ==
    IF i > Len(tags) \/ tags[i] = 93 THEN [args |-> <<>>, next |-> i, k |-> k]
    ELSE IF tags[i] = 91
    THEN LET inner == Group(tags, i + 1, k)
             rest == Group(tags, inner.next + 1, inner.k)
         IN  [args |-> <<Arg("Array", inner.args)>> \o rest.args,
              next |-> rest.next, k |-> rest.k]
    ELSE LET leaf == IF tags[i] = 105 THEN Arg("Int", <<k + 1>>) ELSE Arg("Bool", <<1>>)
             rest == Group(tags, i + 1, IF tags[i] = 105 THEN k + 1 ELSE k)
         IN  [args |-> <<leaf>> \o rest.args, next |-> rest.next, k |-> rest.k]

\* C13: array decoding.  For every type-tag string whose brackets are well
\* matched, the decoded args mirror the nesting: each '[' ... ']' group is
\* one Array at the position of the group holding the arguments of the tags
\* inside it in order, to any depth, and the payload is read in flat
\* left-to-right tag order.
C13_ArrayDecoding ==
    (op = "decode_udp" /\ IsRawMessage /\ WellMatched(RawTags))
        => (/\ res.ok
            /\ res.rem = <<>>
            /\ res.val = Message(AddrOf(2), Group(RawTags, 1, 0).args))

\* the tags "[[i]]" with one int were decoded to an array holding an array
\* holding the int
C13_Witness ==
    /\ op = "decode_udp"
    /\ IsRawMessage
    /\ RawTags = <<91, 91, 105, 93, 93>>
    /\ res.ok
    /\ res.val.args = <<Arg("Array", <<Arg("Array", <<Arg("Int", <<1>>)>>)>>)>>

\* C14: unmatched array close.  Decoding a message whose type-tag string
\* has a ']' where no '[' is open fails with BadMessage and returns no
\* packet.
C14_UnmatchedClose ==
    (op = "decode_udp" /\ IsRawMessage /\ UnmatchedClose(RawTags))
        => (~res.ok /\ res.err = "BadMessage")

\* the tags "[i]]" were refused
C14_Witness ==
    /\ op = "decode_udp"
    /\ IsRawMessage
    /\ RawTags = <<91, 105, 93, 93>>
    /\ ~res.ok

\* the string buf starts with, when buf holds its NUL and its padding
LeadingString == Slice(buf, 0, take_till_nul(buf, 0, Len(buf)))

HasLeadingString ==
    /\ Len(LeadingString) + (4 - (Len(LeadingString) % 4)) <= Len(buf)
    /\ \A i \in 1..Len(LeadingString) : LeadingString[i] < 128

\* C15: packet dispatch errors.  decode_udp fails with the packet-format
\* error and returns no packet when the buffer is empty, when the leading
\* string starts with a character other than '/' and '#', and when it
\* starts with '#' and is not exactly "#bundle".
C15_DispatchErrors ==
    (/\ op = "decode_udp"
     /\ mode = "raw"
     /\ \/ buf = <<>>
        \/ /\ HasLeadingString
           /\ LeadingString # <<>>
           /\ \/ LeadingString[1] \notin {47, 35}
              \/ LeadingString[1] = 35 /\ LeadingString # <<35, 98, 117, 110, 100, 108, 101>>)
        => (~res.ok /\ res.err = "BadPacket")

\* "#bundlex" with a time tag behind it was refused
C15_Witness ==
    /\ op = "decode_udp"
    /\ mode = "raw"
    /\ LeadingString = <<35, 98, 117, 110, 100, 108, 101, 120>>
    /\ Len(buf) = 20
    /\ ~res.ok

----------------------------------------------------------------------------
(* Sinks.                                                                  *)

\* C16: encode_into appends.  encode_into(p, vec) on a Vec<u8> that holds
\* the bytes old leaves vec equal to old followed by encode(p), the old
\* bytes untouched and every bundle length inside the new region, and
\* returns len(encode(p)).
C16_EncodeIntoAppends ==
    [][(op' = "encode_into" /\ output.sink = "Vec")
          => (/\ enc'.st = "Ok"
              /\ output'.bytes = output.bytes \o encode(packet').out
              /\ enc'.n = Len(encode(packet').out))]_vars

\* a bundle holding the message "/a" was encoded into a Vec behind the
\* bytes 8, 9: the length 8 stands behind the 16-byte header
C16_Witness ==
    /\ op = "encode_into"
    /\ output.sink = "Vec"
    /\ packet = Bundle(TimeTag, <<Message(AddrOf(2), <<>>)>>)
    /\ Len(output.bytes) = 30
    /\ SubSeq(output.bytes, 1, 2) = <<8, 9>>
    /\ from_be_bytes(output.bytes, 18) = 8
    /\ enc.n = 28

\* C17: sink equivalence.  For every packet p, encode_into(p,
\* WriteOutput(cursor over an empty buffer)) produces byte for byte the
\* output of encode(p) on the Vec sink and returns the same count, nested
\* bundles included.
C17_SinkEquivalence ==
    [][(op' = "encode_into" /\ output = WriteOutputNew)
          => (/\ enc'.st = encode(packet').st
              /\ output'.bytes = encode(packet').out
              /\ enc'.n = encode(packet').n)]_vars

\* a bundle holding a bundle and a message was encoded through a new
\* cursor, which stands at the end of the 60 bytes
C17_Witness ==
    /\ op = "encode_into"
    /\ output.sink = "WriteOutput"
    /\ packet = Bundle(TimeTag, <<Bundle(TimeTag, <<>>), Message(AddrOf(2), <<>>)>>)
    /\ Len(output.bytes) = 48
    /\ output.pos = 48
    /\ from_be_bytes(output.bytes, 16) = 16
    /\ from_be_bytes(output.bytes, 36) = 8
    /\ enc.n = 48

\* C18: mark/place protocol.  For both sinks, mark(n) appends n placeholder
\* bytes at the current position and returns a handle to them; a later
\* place(handle, data) with len(data) = n overwrites exactly those n bytes
\* and leaves every other byte, the total length and the position at which
\* later writes continue unchanged, also with several marks outstanding.
C18_MarkPlace ==
    [][/\ op' = "mark"
          => (/\ enc'.st = "Ok"
              /\ Len(output'.bytes) = Len(output.bytes) + operand'
              /\ SubSeq(output'.bytes, 1, Len(output.bytes)) = output.bytes)
       /\ op' = "place"
          => \E k \in 1..Len(marks) :
               /\ marks' = SubSeq(marks, 1, k - 1) \o SubSeq(marks, k + 1, Len(marks))
               /\ enc'.st = "Ok"
               /\ Len(operand') = marks[k].size
               /\ Len(output'.bytes) = Len(output.bytes)
               /\ \A i \in 1..Len(output.bytes) :
                    output'.bytes[i] =
                       IF i > marks[k].at /\ i <= marks[k].at + marks[k].size
                       THEN operand'[i - marks[k].at] ELSE output.bytes[i]
               /\ (output.sink = "WriteOutput" => output'.pos = output.pos)
       /\ op' = "write"
          => (enc'.st = "Ok" /\ output'.bytes = output.bytes \o operand')]_vars

\* on a WriteOutput the older of two marks, of 1 byte at the start, was
\* placed while the younger, of 4 bytes behind a written byte, is still
\* outstanding
C18_Witness ==
    /\ op = "place"
    /\ output.sink = "WriteOutput"
    /\ Len(marks) = 1
    /\ marks[1].at = 2
    /\ marks[1].size = 4
    /\ output.bytes = <<171, 7, 0, 0, 0, 0>>
    /\ output.pos = 6

\* the smallest multiple of 4 greater than the length of s
PaddedLength(s) == 4 * ((Len(s) \div 4) + 1)

\* C19: string encoding.  encode_string(s) and encode_string_into(s, out)
\* emit the same bytes: the bytes of s and then 1 to 4 NULs, so that the
\* total is the smallest multiple of 4 greater than len(s);
\* encode_string_into returns that total.
C19_StringEncoding ==
    [][/\ op' = "encode_string"
          => buf' = operand' \o Zeros(PaddedLength(operand') - Len(operand'))
       /\ op' = "encode_string_into"
          => (/\ enc'.st = "Ok"
              /\ output'.bytes
                   = output.bytes \o operand'
                       \o Zeros(PaddedLength(operand') - Len(operand'))
              /\ enc'.n = PaddedLength(operand'))]_vars

\* the four bytes "hijk" were encoded into a sink behind the byte 7: four
\* NULs follow them and 8 is returned
C19_Witness ==
    /\ op = "encode_string_into"
    /\ operand = StrOf(4)
    /\ output.bytes = <<7, 104, 105, 106, 107, 0, 0, 0, 0>>
    /\ enc.n = 8

----------------------------------------------------------------------------
(* Time conversion.                                                        *)

\* C20: SystemTime to OscTime.  OscTime::try_from(t) fails with BeforeEpoch
\* exactly when t is before the UNIX epoch, fails with Overflow exactly
\* when the seconds of t since the epoch plus 2,208,988,800 pass 2^32 - 1,
\* that is when they pass 2,085,978,495, and otherwise succeeds with that
\* sum as seconds; as a 32-bit word the sum is the seconds of t minus
\* 2,085,978,496.  The epoch itself becomes (2208988800, 0).
C20_TryFromDomain ==
    op = "try_from"
        => /\ (~res.ok /\ res.err = "BeforeEpoch") <=> operand.secs < 0
           /\ (~res.ok /\ res.err = "Overflow") <=> operand.secs > 2085978495
           /\ (operand.secs >= 0 /\ operand.secs <= 2085978495)
                 => (res.ok /\ res.val[1] = operand.secs - 2085978496)
           /\ (operand.secs = 0 /\ operand.nanos = 0)
                 => (res.ok /\ to_be_bytes(res.val[1]) = <<131, 170, 126, 128>>
                            /\ res.val[2] = 0)

\* the last nanosecond an OscTime can hold was converted: the seconds are
\* 2^32 - 1
C20_Witness ==
    /\ op = "try_from"
    /\ operand = [secs |-> 2085978495, nanos |-> 999999999]
    /\ res.ok
    /\ to_be_bytes(res.val[1]) = <<255, 255, 255, 255>>

\* seconds of a time tag, as a 32-bit word, under 2,208,988,800: the word
\* is not negative (under 2^31) or under 2,208,988,800 - 2^32
SecondsBelowFloor(time) == time[1] >= 0 \/ time[1] < -2085978496

\* C21: OscTime to SystemTime below the floor.  Converting an OscTime whose
\* seconds are less than 2,208,988,800 to a SystemTime gives the caller a
\* failure it can handle: no time value and no abort.
C21_BelowFloorFails ==
    (op = "from" /\ SecondsBelowFloor(operand)) => res.st = "Err"

\* two 32-bit words taken as unsigned numbers differ by no more than tol
WordsWithin(x, y, tol) ==
    LET a == WordWide(x)
        b == WordWide(y)
        d == IF WideLess(a, b) THEN WideSub(b, a) ELSE WideSub(a, b)
    IN  d[1] = 0 /\ d[2] <= tol

\* C22: OscTime -> SystemTime -> OscTime round trip.  For every OscTime t
\* with seconds of 2,208,988,800 or more and any fractional,
\* OscTime::try_from(SystemTime::from(t)) succeeds with the seconds of t and
\* a fractional within 21 units of that of t.
C22_OscRoundTrip ==
    /\ (op = "from" /\ ~SecondsBelowFloor(operand)) => res.st = "Ok"
    /\ (op = "from_try_from" /\ ~SecondsBelowFloor(operand))
          => /\ res.ok
             /\ res.val[1] = operand[1]
             /\ WordsWithin(res.val[2], operand[2], 21)

\* two SystemTimes differ by no more than tol nanoseconds
TimesWithin(a, b, tol) ==
    \/ a.secs = b.secs /\ a.nanos - b.nanos \in -tol..tol
    \/ a.secs = b.secs + 1 /\ a.nanos + (NANOS_PER_SECOND - b.nanos) <= tol
    \/ b.secs = a.secs + 1 /\ b.nanos + (NANOS_PER_SECOND - a.nanos) <= tol

\* C23: SystemTime -> OscTime -> SystemTime round trip.  For every
\* SystemTime t at or after the UNIX epoch whose seconds plus 2,208,988,800
\* fit in 32 bits, with any nanoseconds, OscTime::try_from(t) succeeds and
\* SystemTime::from of it is a time no more than 5 nanoseconds from t.
C23_SystemRoundTrip ==
    /\ (op = "try_from" /\ operand.secs >= 0 /\ operand.secs <= 2085978495)
          => res.ok
    /\ op = "try_from_from"
          => (res.st = "Ok" /\ TimesWithin(res.val, operand, 5))

\* the last nanosecond an OscTime holds went to an OscTime and back
C23_Witness ==
    /\ op = "try_from_from"
    /\ operand = [secs |-> 2085978495, nanos |-> 999999999]
    /\ res.st = "Ok"
    /\ res.val.secs = 2085978495

----------------------------------------------------------------------------
(* Address matching.                                                       *)

\* the number of '/' in a string
Slashes(s) == Len(SelectSeq(s, LAMBDA c : c = 47))

\* C24: address matching stays within parts.  For every valid pattern and
\* valid address, when match_address returns true no component of the
\* pattern has matched across a '/', so the address has as many parts as
\* the pattern.
C24_MatchWithinParts ==
    (op = "match_address" /\ res.ok /\ res.val)
        => Slashes(operand[2]) = Slashes(operand[1])

----------------------------------------------------------------------------
(* Alignment, streams and accounting of the decoder.                       *)

\* C25: alignment invariant of the decoder.  In decode_udp and in
\* decode_tcp every string read and every blob read that succeeds, at
\* whatever offset of the buffer passed to the call it starts (in the
\* packet itself, or in a bundle element at any depth), ends at an offset
\* from the start of that buffer that is a multiple of 4.
C25_Alignment ==
    op \in {"decode_udp", "decode_tcp"}
        => \A lo \in 0..Len(buf) :
              /\ read_osc_string(buf, lo, Len(buf)).ok
                    => read_osc_string(buf, lo, Len(buf)).rem % 4 = 0
              /\ read_blob(buf, lo, Len(buf)).ok
                    => read_blob(buf, lo, Len(buf)).rem % 4 = 0

\* a bundle holding a message with a one-byte blob was decoded from its
\* datagram: the strings of the message start at offsets 20 and 24 and its
\* blob at offset 28
C25_Witness ==
    /\ op = "decode_udp"
    /\ res.ok
    /\ res.val = Bundle(TimeTag, <<Message(AddrOf(2), <<Arg("Blob", BlobOf(1))>>)>>)
    /\ read_osc_string(buf, 20, Len(buf)).rem = 24
    /\ read_blob(buf, 28, Len(buf)).rem = 36

RECURSIVE FramesEnd(_, _)
\* the offset in the stream at which the k-th frame of ps ends
FramesEnd(ps, k) == IF k = 0 THEN 0 ELSE FramesEnd(ps, k - 1) + Len(frame(ps[k]).out)

\* how many of the frames sent have arrived whole
WholeFrames ==
    CHOOSE k \in 0..Len(sent) :
        /\ FramesEnd(sent, k) <= Len(buf)
        /\ k < Len(sent) => FramesEnd(sent, k + 1) > Len(buf)

\* C26: incremental stream decoding.  On every prefix of a concatenation of
\* well-formed message frames decode_tcp_vec returns Ok, never Err, with
\* the packets of the frames wholly inside the prefix, in order, and the
\* bytes of the incomplete last frame as remainder.
C26_IncrementalStream ==
    (op = "decode_tcp_vec" /\ \A i \in 1..Len(sent) : IsMessage(sent[i]))
        => (/\ res.ok
            /\ res.val = SubSeq(sent, 1, WholeFrames)
            /\ res.rem = Slice(buf, FramesEnd(sent, WholeFrames), Len(buf)))

RECURSIVE Leaves(_)
\* the arguments of an argument list that are no arrays, at any depth
Leaves(args) ==
    IF args = <<>> THEN 0
    ELSE (IF args[1].tag = "Array" THEN Leaves(args[1].val) ELSE 1)
           + Leaves(Tail(args))

\* the tags that are no brackets: each had its argument read
ArgumentTags(tags) == Cardinality({n \in 1..Len(tags) : tags[n] \notin {91, 93}})

\* C27: no decoded argument is dropped.  When the decoding of a message
\* succeeds, the returned args hold as many arguments that are no arrays
\* as the type-tag string has tags that are no brackets, also when a '['
\* of the type-tag string is never closed.
C27_NoArgumentDropped ==
    (op = "decode_udp" /\ IsRawMessage /\ res.ok)
        => Leaves(res.val.args) = ArgumentTags(RawTags)

RECURSIVE PacketAccounted(_, _, _)
RECURSIVE ElementsAccounted(_, _, _)
\* in the bundle elements decoded from b[lo..hi), at any depth, the
\* sub-packet ends where the element ends
PacketAccounted(b, lo, hi) ==
    LET addr == read_osc_string(b, lo, hi)
    IN  (decode_packet(b, lo, hi).ok /\ addr.val = BundleTag)
            => ElementsAccounted(b, addr.rem + 8, hi)

\* the same for the elements that many0 collects from lo on
ElementsAccounted(b, lo, hi) ==
    LET r == read_bundle_element(b, lo, hi)
    IN  r.ok => (/\ decode_packet(b, lo + 4, r.rem).rem = r.rem
                 /\ PacketAccounted(b, lo + 4, r.rem)
                 /\ ElementsAccounted(b, r.rem, hi))

\* C28: byte accounting.  When decode_udp succeeds, every byte of the input
\* is part of the decoded packet or of the returned remainder: the
\* remainder is the end of the input, and no bytes of a bundle element lie
\* after the element's sub-packet.
C28_ByteAccounting ==
    (op = "decode_udp" /\ res.ok)
        => (/\ res.rem = Slice(buf, Len(buf) - Len(res.rem), Len(buf))
            /\ PacketAccounted(buf, 0, Len(buf)))

RECURSIVE LoopRuns(_)
\* how often the body of the loop of decode_tcp_vec runs on `input`
LoopRuns(input) ==
    LET r == decode_tcp(input)
    IN  IF ~r.ok \/ r.val = None THEN 0
        ELSE IF r.rem = <<>> THEN 1
        ELSE 1 + LoopRuns(r.rem)

RECURSIVE ElementRuns(_, _, _)
\* how many elements the repetition of decode_bundle takes from b[lo..hi)
ElementRuns(b, lo, hi) ==
    LET r == read_bundle_element(b, lo, hi)
    IN  IF ~r.ok \/ r.rem = lo THEN 0 ELSE 1 + ElementRuns(b, r.rem, hi)

RECURSIVE PacketProgress(_, _, _)
RECURSIVE ElementsProgress(_, _, _)
\* when b[lo..hi) starts as a bundle, the repetition over its elements
\* makes progress, and so do the bundles in them
PacketProgress(b, lo, hi) ==
    LET addr == read_osc_string(b, lo, hi)
    IN  (addr.ok /\ addr.val = BundleTag /\ addr.rem + 8 <= hi)
            => (/\ ElementRuns(b, addr.rem + 8, hi) * 4 <= hi - (addr.rem + 8)
                /\ ElementsProgress(b, addr.rem + 8, hi))

\* each element taken from lo on ends at least 4 bytes after its start and
\* inside b[lo..hi)
ElementsProgress(b, lo, hi) ==
    LET r == read_bundle_element(b, lo, hi)
    IN  r.ok => (/\ lo + 4 <= r.rem
                 /\ r.rem <= hi
                 /\ PacketProgress(b, lo + 4, r.rem)
                 /\ ElementsProgress(b, r.rem, hi))

RECURSIVE FramesProgress(_)
\* each frame that decode_tcp turns into a packet leaves a remainder that
\* is an end of the input and at least 4 bytes shorter
FramesProgress(input) ==
    LET r == decode_tcp(input)
    IN  (r.ok /\ r.val # None)
            => (/\ Len(r.rem) + 4 <= Len(input)
                /\ r.rem = Slice(input, Len(input) - Len(r.rem), Len(input))
                /\ PacketProgress(input, 4, Len(input))
                /\ r.rem # <<>> => FramesProgress(r.rem))

\* C29: termination and progress.  A frame that decode_tcp turns into a
\* packet and a bundle element that yields a packet consume at least 4
\* bytes, and what is left is a strictly shorter end of the input; the loop
\* of decode_tcp_vec and the element repetition of decode_bundle run at most
\* len(input) / 4 times.
C29_Progress ==
    /\ op = "decode_udp" => PacketProgress(buf, 0, Len(buf))
    /\ op \in {"decode_tcp", "decode_tcp_vec"}
          => (FramesProgress(buf) /\ LoopRuns(buf) * 4 <= Len(buf))

\* decode_tcp_vec ran its loop twice, for a message and for a bundle whose
\* one element was taken
C29_Witness ==
    /\ op = "decode_tcp_vec"
    /\ res.ok
    /\ LoopRuns(buf) = 2
    /\ Len(res.val) = 2
    /\ IsBundle(res.val[2])
    /\ Len(res.val[2].content) = 1
    /\ ElementRuns(buf, Len(frame(sent[1]).out) + 20, Len(buf)) = 1

RECURSIVE FrameFailure(_, _)
\* the frame of `input` at which decode_tcp fails, as the number k of frames
\* decoded before it and the error; k = -1 when no frame fails
FrameFailure(input, k) ==
    LET r == decode_tcp(input)
    IN  IF ~r.ok THEN [k |-> k, err |-> r.err]
        ELSE IF r.val = None \/ r.rem = <<>> THEN [k |-> -1, err |-> ""]
        ELSE FrameFailure(r.rem, k + 1)

\* C30: decode_tcp_vec is all-or-nothing on error.  When a frame fails to
\* decode after k >= 1 frames of the same buffer were decoded, decode_tcp_vec
\* returns the error of that frame and nothing else: no packet and no
\* remainder.
C30_AllOrNothing ==
    (op = "decode_tcp_vec" /\ FrameFailure(buf, 0).k >= 1)
        => res = Error(FrameFailure(buf, 0).err)

\* the second frame failed after the first was decoded, and the caller got
\* the error alone
C30_Witness ==
    /\ op = "decode_tcp_vec"
    /\ FrameFailure(buf, 0).k = 1
    /\ decode_tcp(buf).ok
    /\ decode_tcp(buf).val = Some(sent[1])
    /\ ~res.ok
    /\ DOMAIN res = {"ok", "err"}
====
